---------------------------- MODULE Spec2Model ----------------------------
(***************************************************************************)
(* A model of go.nut (package nut): the connection Pool of nut.go and the  *)
(* Client (Session) command round trip of nut.go.                          *)
(*                                                                         *)
(* These specifications share this module:                                 *)
(*   Spec         the Pool: Get / Put / Close / Stats called concurrently  *)
(*                by several goroutines, one step per lock region or       *)
(*                channel operation of the source;                         *)
(*   OpenSpec     the same, with callers that also hand to Put Clients     *)
(*                they opened themselves with Connect;                     *)
(*   SessionSpec  one Client: SendCommandWithContext, Close and Disconnect *)
(*                called concurrently, the reader goroutine of             *)
(*                readResponseWithContext and the server's byte stream;    *)
(*   FairSpec     Spec under the scheduler's fairness (liveness);          *)
(*   ClientSpec   the life of one Client: Connect (dial, VER, NETVER),     *)
(*                then StartTLS, Authenticate and SendCommand called by    *)
(*                several goroutines;                                      *)
(*   DeviceSpec   the device layer (ups.go) and the command classification *)
(*                as functions of their inputs: the command text, the      *)
(*                server's listing and its answers to the per-entry        *)
(*                queries.                                                 *)
(* Text is modelled as sequences of one-character strings, so that         *)
(* HasPrefix, TrimSpace, TrimSuffix, Split and == act as in the source.    *)
(***************************************************************************)
EXTENDS Integers, Sequences, FiniteSets, TLC

\* ------------------------------------------------------------------ bounds
\* Goroutines calling into the Pool.
NumCallers == 2
\* Clients that can be alive (referenced by the pool or a caller) at a time.
MaxSessions == 3
\* Clients the callers open themselves with Connect in one run.
MaxDirect == 1
\* Largest MaxSize a PoolConfig is given (0 selects the default of NewPool).
MaxConfigSize == 2

\* Goroutines calling into one Client.
NumSessionCallers == 2
\* Commands written to one Client's connection in one run.
MaxCommands == 2

\* Goroutines using the Client that Connect returned.
NumUsers == 2
\* Commands written to that Client's connection in one run.
MaxWritten == 4

\* Blanks before and after a command text.
MaxBlanks == 2
\* Digits of a STRING:<N> length.
MaxDigits == 2
\* Entries of a listing.
MaxEntries == 2
\* Characters of a name or a value.
MaxNameLen == 3

\* ------------------------------------------------------------- constants
\* nut.go:558, the pool size NewPool uses when config.MaxSize <= 0.
DefaultPoolSize == 10

VARIABLES
    \* ---- Pool (nut.go:536-545)
    maxSize,        \* p.maxSize, also cap(p.clients)
    clients,        \* p.clients: the buffered channel's content, oldest first
    chanClosed,     \* whether close(p.clients) has run
    closed,         \* p.closed
    activeClients,  \* p.activeClients
    \* ---- the Clients the pool or its callers created
    conn,           \* conn[s]: "none" (not allocated), "open", "nil" (closed)
    origin,         \* origin[s]: "none", "pool" (made by Pool.Get), "direct" (made by
                    \* Connect), "adopted" (made by Connect and later given to Put)
    \* ---- the calling goroutines
    pc,             \* pc[p]: where goroutine p stands
    arg,            \* arg[p]: the *Client of the running Put
    ctxDone,        \* ctxDone[p]: the running Get's ctx is cancelled
    lastErr,        \* lastErr[p]: the running Close's lastErr
    held,           \* held[p]: the Client goroutine p owns, or NoClient
    ret,            \* what the call that returned in the last step returned (op: the
                    \* call, via: which of its return statements, then the values)
    crashed,        \* "none", or the runtime panic that ended the process
    directMade,     \* how many Clients the callers opened with Connect
    \* ---- one Client (nut.go:20-33) and its server
    cConn,          \* c.conn and c.reader: "open", or "nil" after Close / Disconnect
    mu,             \* c.mu: the goroutine holding it, or NoCaller
    wire,           \* the lines the server has sent and no reader has read yet
    readers,        \* readers[i]: the goroutine reading the response of command i
    sent,           \* commands written to the connection so far
    spc,            \* spc[p]: where goroutine p stands
    scall,          \* scall[p]: the running call's cmd, ctx and reader
    sret,           \* what the call that returned in the last step returned
    sCrashed,       \* "none", or the runtime panic that ended the process
    metrics,        \* c.metrics: the counters of ClientMetrics (nut.go:36-43)
    \* ---- the life of one Client, from Connect on
    sock,           \* the TCP connection of the dial: "none", "open", "closed"
    tConn,          \* c.conn: "nil", "tcp" or "tls" (the tls.Conn over the socket)
    tReader,        \* c.reader: "nil", or the stream it reads: "tcp", "tls"
    UseTLS,         \* c.UseTLS
    Version,        \* c.Version
    ProtocolVersion,\* c.ProtocolVersion
    written,        \* the commands written to the connection, oldest first
    connected,      \* whether Connect has returned the Client to its caller
    upc,            \* upc[g]: where goroutine g stands
    usernameResp,   \* usernameResp[g] of the running Authenticate
    uret,           \* what the call that returned in the last step returned
    \* ---- the device layer: one call and what the server answers to it
    job,            \* the call's argument and the server's answers
    result,         \* what the call returned and the commands it sent
    \* ---- history: not a field of the program
    getNet          \* getNet[p]: what the running call of p has added to
                    \* p.activeClients so far (0 when p is in no call)

poolVars == <<maxSize, clients, chanClosed, closed, activeClients, conn, origin,
              pc, arg, ctxDone, lastErr, held, ret, crashed, directMade>>

sessionVars == <<cConn, mu, wire, readers, sent, spc, scall, sret, sCrashed, metrics>>

clientVars == <<sock, tConn, tReader, UseTLS, Version, ProtocolVersion, written,
                connected, upc, usernameResp, uret>>

deviceVars == <<job, result>>

vars == <<poolVars, sessionVars, clientVars, deviceVars, getNet>>

Callers  == 1..NumCallers
Sessions == 1..MaxSessions
\* The nil *Client.
NoClient == 0
\* No call returned in the last step.
NoRet == [op |-> "none", via |-> "none", client |-> NoClient, err |-> "nil",
          idle |-> -1, active |-> -1]

\* ------------------------------------------------------------- Client.Close
\* nut.go:248-260: an already-closed connection reports an error, an open one
\* is closed and the handle set to nil.
\* Mutant of ClientCloseErr: closing a closed Client reports no error.
ClientCloseErrNil(c) == "nil"
ClientCloseErr(c) == IF c = "nil" THEN "connection already closed" ELSE "nil"
ClientCloseConn(c) == "nil"

\* ------------------------------------------------------------------ NewPool
\* nut.go:556-576
NewPoolMaxSize(configMaxSize) ==
    IF configMaxSize <= 0 THEN DefaultPoolSize ELSE configMaxSize

PoolInit ==
    /\ \E cfg \in 0..MaxConfigSize : maxSize = NewPoolMaxSize(cfg)
    /\ clients = <<>>
    /\ chanClosed = FALSE
    /\ closed = FALSE
    /\ activeClients = 0
    /\ conn = [s \in Sessions |-> "none"]
    /\ origin = [s \in Sessions |-> "none"]
    /\ pc = [p \in Callers |-> "idle"]
    /\ arg = [p \in Callers |-> NoClient]
    /\ ctxDone = [p \in Callers |-> FALSE]
    /\ lastErr = [p \in Callers |-> "nil"]
    /\ held = [p \in Callers |-> NoClient]
    /\ ret = NoRet
    /\ crashed = "none"
    /\ directMade = 0

Running == crashed = "none"

\* The next unused session identifier (a fresh *Client).
CanCreate == \E s \in Sessions : conn[s] = "none"
Fresh == CHOOSE s \in Sessions :
             conn[s] = "none" /\ \A t \in Sessions : t < s => conn[t] # "none"

\* A Client nothing refers to any more: the garbage collector frees it and
\* its identifier stands for a later allocation.
Dropped(s) ==
    /\ conn' = [conn EXCEPT ![s] = "none"]
    /\ origin' = [origin EXCEPT ![s] = "none"]

\* client.Close() on a Client the closing call holds the last reference to:
\* ClientCloseConn sets the handle to nil and the Client is then dropped.
ClosedAndDropped(s) ==
    /\ ClientCloseConn(conn[s]) = "nil"
    /\ Dropped(s)

\* A call returns r to goroutine p, which goes on.
Return(p, r) ==
    /\ pc' = [pc EXCEPT ![p] = "idle"]
    /\ ret' = r

\* A step inside a call: nothing is returned.
Goto(p, label) ==
    /\ pc' = [pc EXCEPT ![p] = label]
    /\ ret' = NoRet

\* ----------------------------------------------------------------- Pool.Get
\* nut.go:579: the call starts.
GetStart(p) ==
    /\ Running /\ pc[p] = "idle"
    /\ held[p] = NoClient
    /\ Goto(p, "GetCheckClosed")
    /\ ctxDone' = [ctxDone EXCEPT ![p] = FALSE]
    /\ UNCHANGED <<maxSize, clients, chanClosed, closed, activeClients, conn, origin,
                   arg, lastErr, held, crashed, directMade>>

\* The caller's context is cancelled (or its deadline passes). Get consults
\* ctx only while it waits (nut.go:610) and in the dial (nut.go:618).
CtxCancel(p) ==
    /\ Running
    /\ pc[p] \in {"GetWait", "GetConnect"}
    /\ ~ctxDone[p]
    /\ ctxDone' = [ctxDone EXCEPT ![p] = TRUE]
    /\ ret' = NoRet
    /\ UNCHANGED <<maxSize, clients, chanClosed, closed, activeClients, conn, origin,
                   pc, arg, lastErr, held, crashed, directMade>>

\* Mutant of GetCheckClosed: the closed flag is not consulted.
GetCheckClosedNever(p) ==
    /\ Running /\ pc[p] = "GetCheckClosed"
    /\ Goto(p, "GetTryIdle")
    /\ UNCHANGED <<maxSize, clients, chanClosed, closed, activeClients, conn, origin,
                   arg, ctxDone, lastErr, held, crashed, directMade>>

\* nut.go:580-585
GetCheckClosed(p) ==
    /\ Running /\ pc[p] = "GetCheckClosed"
    /\ IF closed
       THEN Return(p, [NoRet EXCEPT !.op = "Get", !.via = "closed", !.err = "pool is closed"])
       ELSE Goto(p, "GetTryIdle")
    /\ UNCHANGED <<maxSize, clients, chanClosed, closed, activeClients, conn, origin,
                   arg, ctxDone, lastErr, held, crashed, directMade>>

\* Mutant of Dequeue: the idle Client is read but left in the queue.
DequeuePeek(q) == q

\* nut.go:589, 608, 672: a receive takes the oldest element out of the channel.
Dequeue(q) == Tail(q)

\* nut.go:588-600: the non-blocking receive and the liveness test.
IsAlive(c) == c # "nil"

GetTryIdle(p) ==
    /\ Running /\ pc[p] = "GetTryIdle"
    /\ IF clients # <<>>
       THEN /\ clients' = Dequeue(clients)
            /\ IF IsAlive(conn[Head(clients)])
               THEN /\ Return(p, [NoRet EXCEPT !.op = "Get", !.via = "idle", !.client = Head(clients)])
                    /\ held' = [held EXCEPT ![p] = Head(clients)]
                    /\ UNCHANGED <<conn, origin>>
               ELSE /\ Goto(p, "GetDiscardDead")
                    /\ Dropped(Head(clients))
                    /\ UNCHANGED held
            /\ UNCHANGED crashed
       ELSE IF chanClosed
       THEN \* the receive yields a nil *Client; client.conn dereferences it
            /\ crashed' = "Get: nil pointer dereference"
            /\ ret' = NoRet
            /\ UNCHANGED <<clients, conn, origin, pc, held>>
       ELSE /\ Goto(p, "GetReserve")
            /\ UNCHANGED <<clients, conn, origin, held, crashed>>
    /\ UNCHANGED <<maxSize, chanClosed, closed, activeClients, arg, ctxDone, lastErr,
                   directMade>>

\* nut.go:595-597
GetDiscardDead(p) ==
    /\ Running /\ pc[p] = "GetDiscardDead"
    /\ activeClients' = activeClients - 1
    /\ Goto(p, "GetReserve")
    /\ UNCHANGED <<maxSize, clients, chanClosed, closed, conn, origin,
                   arg, ctxDone, lastErr, held, crashed, directMade>>

\* Mutants of AtCapacity: the comparison off by one, and no check at all.
AtCapacityOffByOne == activeClients > maxSize
AtCapacityNever == FALSE

\* nut.go:603-615
AtCapacity == activeClients >= maxSize

GetReserve(p) ==
    /\ Running /\ pc[p] = "GetReserve"
    /\ IF AtCapacity
       THEN Goto(p, "GetWait") /\ UNCHANGED activeClients
       ELSE /\ activeClients' = activeClients + 1
            /\ Goto(p, "GetConnect")
    /\ UNCHANGED <<maxSize, clients, chanClosed, closed, conn, origin,
                   arg, ctxDone, lastErr, held, crashed, directMade>>

\* nut.go:607-609: the blocking receive. A closed, drained channel yields nil.
WaitReceived == IF clients # <<>> THEN Head(clients) ELSE NoClient

GetWaitRecv(p) ==
    /\ Running /\ pc[p] = "GetWait"
    /\ clients # <<>> \/ chanClosed
    /\ clients' = IF clients # <<>> THEN Dequeue(clients) ELSE clients
    /\ Return(p, [NoRet EXCEPT !.op = "Get", !.via = "wait", !.client = WaitReceived])
    /\ held' = [held EXCEPT ![p] = WaitReceived]
    /\ UNCHANGED <<maxSize, chanClosed, closed, activeClients, conn, origin,
                   arg, ctxDone, lastErr, crashed, directMade>>

\* nut.go:610-611
GetWaitCancelled(p) ==
    /\ Running /\ pc[p] = "GetWait"
    /\ ctxDone[p]
    /\ Return(p, [NoRet EXCEPT !.op = "Get", !.via = "cancel", !.err = "context canceled"])
    /\ UNCHANGED <<maxSize, clients, chanClosed, closed, activeClients, conn, origin,
                   arg, ctxDone, lastErr, held, crashed, directMade>>

\* nut.go:618, 626-630: ConnectWithOptionsAndConfig succeeded.
GetConnectOk(p) ==
    /\ Running /\ pc[p] = "GetConnect"
    /\ ~ctxDone[p]
    /\ CanCreate
    /\ conn' = [conn EXCEPT ![Fresh] = "open"]
    /\ origin' = [origin EXCEPT ![Fresh] = "pool"]
    /\ held' = [held EXCEPT ![p] = Fresh]
    /\ Return(p, [NoRet EXCEPT !.op = "Get", !.via = "new", !.client = Fresh])
    /\ UNCHANGED <<maxSize, clients, chanClosed, closed, activeClients,
                   arg, ctxDone, lastErr, crashed, directMade>>

\* Mutant of GetConnectFailed: the reserved slot is not given back.
GetConnectFailedKeepsSlot(p) ==
    /\ Running /\ pc[p] = "GetConnect"
    /\ Return(p, [NoRet EXCEPT !.op = "Get", !.via = "connect",
                  !.err = IF ctxDone[p] THEN "context canceled" ELSE "connect failed"])
    /\ UNCHANGED <<maxSize, clients, chanClosed, closed, activeClients, conn, origin,
                   arg, ctxDone, lastErr, held, crashed, directMade>>

\* nut.go:618-624: the dial, VER or NETVER failed (or ctx is done).
GetConnectFailed(p) ==
    /\ Running /\ pc[p] = "GetConnect"
    /\ activeClients' = activeClients - 1
    /\ Return(p, [NoRet EXCEPT !.op = "Get", !.via = "connect",
                  !.err = IF ctxDone[p] THEN "context canceled" ELSE "connect failed"])
    /\ UNCHANGED <<maxSize, clients, chanClosed, closed, conn, origin,
                   arg, ctxDone, lastErr, held, crashed, directMade>>

\* ----------------------------------------------------------------- Pool.Put
\* nut.go:634-637: Put(nil) returns at once.
PutNil(p) ==
    /\ Running /\ pc[p] = "idle"
    /\ Return(p, [NoRet EXCEPT !.op = "Put"])
    /\ UNCHANGED <<maxSize, clients, chanClosed, closed, activeClients, conn, origin,
                   arg, ctxDone, lastErr, held, crashed, directMade>>

\* nut.go:634: Put(client) with the Client the caller owns.
PutStart(p) ==
    /\ Running /\ pc[p] = "idle"
    /\ held[p] # NoClient
    /\ held' = [held EXCEPT ![p] = NoClient]
    /\ arg' = [arg EXCEPT ![p] = held[p]]
    /\ Goto(p, "PutCheckClosed")
    /\ origin' = [origin EXCEPT ![held[p]] = IF @ = "direct" THEN "adopted" ELSE @]
    /\ UNCHANGED <<maxSize, clients, chanClosed, closed, activeClients, conn,
                   ctxDone, lastErr, crashed, directMade>>

\* nut.go:639-644
PutCheckClosed(p) ==
    /\ Running /\ pc[p] = "PutCheckClosed"
    /\ IF closed
       THEN /\ ClosedAndDropped(arg[p])
            /\ Return(p, [NoRet EXCEPT !.op = "Put", !.client = arg[p],
                                       !.err = ClientCloseErr(conn[arg[p]])])
            /\ arg' = [arg EXCEPT ![p] = NoClient]
       ELSE /\ Goto(p, "PutSend")
            /\ UNCHANGED <<conn, origin, arg>>
    /\ UNCHANGED <<maxSize, clients, chanClosed, closed, activeClients,
                   ctxDone, lastErr, held, crashed, directMade>>

\* nut.go:647-656: the non-blocking send; when the queue is full the counter
\* is decremented and the Client closed (the Client is private to this call,
\* so the two statements are one step).
QueueHasRoom == Len(clients) < maxSize

PutSend(p) ==
    /\ Running /\ pc[p] = "PutSend"
    /\ IF chanClosed
       THEN /\ crashed' = "Put: send on closed channel"
            /\ ret' = NoRet
            /\ UNCHANGED <<clients, activeClients, conn, origin, pc, arg>>
       ELSE IF QueueHasRoom
       THEN /\ clients' = Append(clients, arg[p])
            /\ Return(p, [NoRet EXCEPT !.op = "Put", !.client = arg[p]])
            /\ arg' = [arg EXCEPT ![p] = NoClient]
            /\ UNCHANGED <<activeClients, conn, origin, crashed>>
       ELSE /\ activeClients' = activeClients - 1
            /\ ClosedAndDropped(arg[p])
            /\ Return(p, [NoRet EXCEPT !.op = "Put", !.client = arg[p],
                                       !.err = ClientCloseErr(conn[arg[p]])])
            /\ arg' = [arg EXCEPT ![p] = NoClient]
            /\ UNCHANGED <<clients, crashed>>
    /\ UNCHANGED <<maxSize, chanClosed, closed, ctxDone, lastErr, held, directMade>>

\* --------------------------------------------------------------- Pool.Close
\* nut.go:660-667
CloseMark(p) ==
    /\ Running /\ pc[p] = "idle"
    /\ IF closed
       THEN Return(p, [NoRet EXCEPT !.op = "Close"]) /\ UNCHANGED closed
       ELSE closed' = TRUE /\ Goto(p, "CloseChan")
    /\ UNCHANGED <<maxSize, clients, chanClosed, activeClients, conn, origin,
                   arg, ctxDone, lastErr, held, crashed, directMade>>

\* nut.go:670-671: close(p.clients); closing a closed channel panics.
CloseChan(p) ==
    /\ Running /\ pc[p] = "CloseChan"
    /\ IF chanClosed
       THEN /\ crashed' = "Close: close of closed channel"
            /\ ret' = NoRet
            /\ UNCHANGED <<chanClosed, pc, lastErr>>
       ELSE /\ chanClosed' = TRUE
            /\ lastErr' = [lastErr EXCEPT ![p] = "nil"]
            /\ Goto(p, "CloseDrain")
            /\ UNCHANGED crashed
    /\ UNCHANGED <<maxSize, clients, closed, activeClients, conn, origin,
                   arg, ctxDone, held, directMade>>

\* nut.go:672-678: one iteration of the range loop, or the loop's end and
\* the return of lastErr.
CloseDrain(p) ==
    /\ Running /\ pc[p] = "CloseDrain"
    /\ IF clients # <<>>
       THEN /\ clients' = Dequeue(clients)
            /\ ClosedAndDropped(Head(clients))
            /\ lastErr' = [lastErr EXCEPT ![p] =
                             IF ClientCloseErr(conn[Head(clients)]) # "nil"
                             THEN ClientCloseErr(conn[Head(clients)]) ELSE @]
            /\ ret' = NoRet
            /\ UNCHANGED pc
       ELSE /\ Return(p, [NoRet EXCEPT !.op = "Close", !.err = lastErr[p]])
            /\ lastErr' = [lastErr EXCEPT ![p] = "nil"]
            /\ UNCHANGED <<clients, conn, origin>>
    /\ UNCHANGED <<maxSize, chanClosed, closed, activeClients,
                   arg, ctxDone, held, crashed, directMade>>

\* --------------------------------------------------------------- Pool.Stats
\* nut.go:682-686
Stats(p) ==
    /\ Running /\ pc[p] = "idle"
    /\ Return(p, [NoRet EXCEPT !.op = "Stats", !.idle = Len(clients),
                               !.active = activeClients])
    /\ UNCHANGED <<maxSize, clients, chanClosed, closed, activeClients, conn, origin,
                   arg, ctxDone, lastErr, held, crashed, directMade>>

\* ------------------------------------------------- the callers' other moves
\* nut.go:248-260: the holder closes the Client it owns (Client.Close).
HolderClose(p) ==
    /\ Running /\ pc[p] = "idle"
    /\ held[p] # NoClient
    /\ conn' = [conn EXCEPT ![held[p]] = ClientCloseConn(@)]
    /\ Return(p, [NoRet EXCEPT !.op = "Client.Close", !.client = held[p],
                               !.err = ClientCloseErr(conn[held[p]])])
    /\ UNCHANGED <<maxSize, clients, chanClosed, closed, activeClients, origin,
                   arg, ctxDone, lastErr, held, crashed, directMade>>

\* nut.go:91-93: a caller opens a Client of its own with Connect.
ConnectDirect(p) ==
    /\ Running /\ pc[p] = "idle"
    /\ held[p] = NoClient
    /\ CanCreate
    /\ directMade < MaxDirect
    /\ directMade' = directMade + 1
    /\ conn' = [conn EXCEPT ![Fresh] = "open"]
    /\ origin' = [origin EXCEPT ![Fresh] = "direct"]
    /\ held' = [held EXCEPT ![p] = Fresh]
    /\ Return(p, [NoRet EXCEPT !.op = "Connect", !.client = Fresh])
    /\ UNCHANGED <<maxSize, clients, chanClosed, closed, activeClients,
                   arg, ctxDone, lastErr, crashed>>

\* ===================================================== text (package strings)
\* Text is a sequence of one-character strings.
IsSpace(ch) == ch \in {" ", "\t", "\n", "\r"}

\* strings.HasPrefix, strings.HasSuffix, strings.TrimSuffix
HasPrefix(str, prefix) ==
    Len(str) >= Len(prefix) /\ SubSeq(str, 1, Len(prefix)) = prefix
HasSuffix(str, suffix) ==
    Len(str) >= Len(suffix) /\ SubSeq(str, Len(str) - Len(suffix) + 1, Len(str)) = suffix
TrimSuffix(str, suffix) ==
    IF HasSuffix(str, suffix) THEN SubSeq(str, 1, Len(str) - Len(suffix)) ELSE str

\* strings.TrimSpace
RECURSIVE TrimLeft(_)
TrimLeft(str) ==
    IF str # <<>> /\ IsSpace(Head(str)) THEN TrimLeft(Tail(str)) ELSE str
RECURSIVE TrimRight(_)
TrimRight(str) ==
    IF str # <<>> /\ IsSpace(str[Len(str)])
    THEN TrimRight(SubSeq(str, 1, Len(str) - 1)) ELSE str
TrimSpace(str) == TrimRight(TrimLeft(str))

\* strings.Split(str, sep) for a one-character separator.
RECURSIVE Split(_, _)
Split(str, sep) ==
    IF \E i \in 1..Len(str) : str[i] = sep
    THEN LET i == CHOOSE k \in 1..Len(str) :
                      str[k] = sep /\ \A j \in 1..(k - 1) : str[j] # sep
         IN  <<SubSeq(str, 1, i - 1)>> \o Split(SubSeq(str, i + 1, Len(str)), sep)
    ELSE <<str>>

\* strings.TrimPrefix
TrimPrefix(str, prefix) ==
    IF HasPrefix(str, prefix) THEN SubSeq(str, Len(prefix) + 1, Len(str)) ELSE str

\* strings.Trim(str, " "): blanks, and nothing else, cut from both ends.
RECURSIVE TrimBlanks(_)
TrimBlanks(str) ==
    IF str # <<>> /\ Head(str) = " " THEN TrimBlanks(Tail(str))
    ELSE IF str # <<>> /\ str[Len(str)] = " "
    THEN TrimBlanks(SubSeq(str, 1, Len(str) - 1))
    ELSE str

\* ============================================== numbers (package strconv)
\* \d+ : one decimal digit or more.
IsDigits(str) ==
    str # <<>> /\ \A i \in 1..Len(str) :
                     str[i] \in {"0", "1", "2", "3", "4", "5", "6", "7", "8", "9"}

ParseIntZero(str) == [err |-> "nil", n |-> 0]

\* strconv.ParseInt(str, 10, 64), and strconv.Atoi on a 64-bit platform: an
\* optional sign and decimal digits; a syntax error otherwise, a range error
\* outside int64. The range is decided on the digits, the value computed
\* only for a number in range.
ParseInt(str) ==
    LET DigitChars == <<"0", "1", "2", "3", "4", "5", "6", "7", "8", "9">>
        DigitValue(ch) == (CHOOSE d \in 1..10 : DigitChars[d] = ch) - 1
        \* the digits without their leading zeros
        RECURSIVE Significant(_)
        Significant(t) ==
            IF Len(t) > 1 /\ Head(t) = "0" THEN Significant(Tail(t)) ELSE t
        \* whether the number written x is at most the number written y
        RECURSIVE AtMost(_, _)
        AtMost(x, y) ==
            IF Len(x) # Len(y) THEN Len(x) < Len(y)
            ELSE IF x = <<>> THEN TRUE
            ELSE IF Head(x) # Head(y) THEN DigitValue(Head(x)) < DigitValue(Head(y))
            ELSE AtMost(Tail(x), Tail(y))
        RECURSIVE Magnitude(_)
        Magnitude(t) ==
            IF t = <<>> THEN 0
            ELSE 10 * Magnitude(SubSeq(t, 1, Len(t) - 1)) + DigitValue(t[Len(t)])
        \* math.MaxInt64 without its last digit, which is 7 (8 for MinInt64)
        MaxInt64Head == <<"9", "2", "2", "3", "3", "7", "2", "0", "3", "6", "8", "5", "4",
                          "7", "7", "5", "8", "0">>
        neg    == str # <<>> /\ Head(str) = "-"
        signed == str # <<>> /\ Head(str) \in {"-", "+"}
        digits == IF signed THEN Tail(str) ELSE str
    IN  IF ~IsDigits(digits) THEN [err |-> "invalid syntax", n |-> 0]
        ELSE IF ~AtMost(Significant(digits), MaxInt64Head \o (IF neg THEN <<"8">> ELSE <<"7">>))
        THEN [err |-> "value out of range", n |-> 0]
        ELSE [err |-> "nil",
              n |-> IF neg THEN 0 - Magnitude(Significant(digits))
                    ELSE Magnitude(Significant(digits))]

\* ======================================================== the wire protocol
CmdVER     == <<"V", "E", "R">>
CmdLISTUPS == <<"L", "I", "S", "T", " ", "U", "P", "S">>
\* A listing command with a trailing blank.
CmdLISTVAR == <<"L", "I", "S", "T", " ", "V", "A", "R", " ", "a", " ">>
CmdLOGOUT  == <<"L", "O", "G", "O", "U", "T">>
CmdNETVER   == <<"N", "E", "T", "V", "E", "R">>
CmdSTARTTLS == <<"S", "T", "A", "R", "T", "T", "L", "S">>
CmdUSERNAME == <<"U", "S", "E", "R", "N", "A", "M", "E", " ", "u">>
CmdPASSWORD == <<"P", "A", "S", "S", "W", "O", "R", "D", " ", "p">>
\* The commands the callers send.
Commands == {CmdVER, CmdLISTUPS, CmdLISTVAR}

LineVersion     == <<"u", "p", "s", "d", " ", "2", ".", "8">>
LineOK          == <<"O", "K">>
LineOKStartTLS  == <<"O", "K", " ", "S", "T", "A", "R", "T", "T", "L", "S">>
LineGoodbye     == <<"O", "K", " ", "G", "o", "o", "d", "b", "y", "e">>
LineGoodbyeOld  == <<"G", "o", "o", "d", "b", "y", "e", ".", ".", ".">>
LineErrDenied   == <<"E", "R", "R", " ", "A", "C", "C", "E", "S", "S", "-", "D", "E", "N", "I", "E", "D">>
LineErrBogus    == <<"E", "R", "R", " ", "B", "O", "G", "U", "S">>
LineEntryUPS    == <<"U", "P", "S", " ", "a", " ", "\"", "b", "\"">>
LineEntryVAR    == <<"V", "A", "R", " ", "a", " ", "b", " ", "\"", "c", "\"">>
LinePrefixBegin == <<"B", "E", "G", "I", "N", " ">>
LinePrefixEnd   == <<"E", "N", "D", " ">>
LinePrefixErr   == <<"E", "R", "R", " ">>
Newline         == <<"\n">>

CodeUnknownCommand == <<"U", "N", "K", "N", "O", "W", "N", "-", "C", "O", "M", "M", "A", "N", "D">>
CodeAccessDenied   == <<"A", "C", "C", "E", "S", "S", "-", "D", "E", "N", "I", "E", "D">>
CodeUnknownUPS     == <<"U", "N", "K", "N", "O", "W", "N", "-", "U", "P", "S">>

\* What the server answers to a command: the listing block, bounded by its
\* header and its sentinel, or one line; an ERR line in place of either; or
\* nothing before the read deadline.
ServerBlock(cmd) ==
    <<LinePrefixBegin \o TrimSpace(cmd),
      IF TrimSpace(cmd) = CmdLISTUPS THEN LineEntryUPS ELSE LineEntryVAR,
      LinePrefixEnd \o TrimSpace(cmd)>>
Responses(cmd) ==
    IF HasPrefix(TrimSpace(cmd), <<"L", "I", "S", "T", " ">>)
    THEN {ServerBlock(cmd), <<LineErrDenied>>, <<>>}
    ELSE IF cmd = CmdLOGOUT
    THEN {<<LineGoodbye>>, <<LineErrBogus>>, <<>>}
    ELSE {<<LineVersion>>, <<LineErrDenied>>, <<LineErrBogus>>, <<>>}

\* errorForMessage: the typed failure of an ERR code, named by its code; a
\* code outside the taxonomy gives the unknown-command failure.
TaxonomyCodes == {CodeUnknownCommand, CodeAccessDenied, CodeUnknownUPS}
errorForMessage(code) ==
    IF code \in TaxonomyCodes THEN code ELSE CodeUnknownCommand

\* ================================================================ one Client
SCallers == 1..NumSessionCallers
ReaderIds == 1..MaxCommands
\* The unlocked c.mu.
NoCaller == 0

NoReader == [state |-> "none", cmd |-> <<>>, owned |-> FALSE,
             lines |-> <<>>, taken |-> <<>>, served |-> <<>>]
\* A reader goroutine that its call has left behind: what it reads reaches
\* nobody. Left: still running; Gone: ended.
Left(cmd) == [NoReader EXCEPT !.state = "run", !.cmd = cmd]
Gone == [NoReader EXCEPT !.state = "gone"]
NoCall == [cmd |-> <<>>, ctx |-> "none", rid |-> 0, resp |-> <<>>]
\* nut.go:111: the counters of a new Client.
NoMetrics == [CommandsSent |-> 0, CommandsFailed |-> 0, BytesSent |-> 0,
              BytesReceived |-> 0]
\* What c.conn.Close() returns for an open connection (nut.go:230, 256).
CloseErrors == {"nil", "close failed"}
NoSRet == [op |-> "none", cmd |-> <<>>, ctx |-> "none", err |-> "nil", code |-> <<>>,
           lines |-> <<>>, ok |-> FALSE, read |-> <<>>, served |-> <<>>]

SessionInit ==
    /\ cConn = "open"
    /\ mu = NoCaller
    /\ wire = <<>>
    /\ readers = [i \in ReaderIds |-> NoReader]
    /\ sent = 0
    /\ spc = [p \in SCallers |-> "idle"]
    /\ scall = [p \in SCallers |-> NoCall]
    /\ sret = NoSRet
    /\ sCrashed = "none"
    /\ metrics = NoMetrics

SRunning == sCrashed = "none"

SReturn(p, r) ==
    /\ spc' = [spc EXCEPT ![p] = "idle"]
    /\ scall' = [scall EXCEPT ![p] = NoCall]
    /\ sret' = r

\* Mutant of IsListing: the command text is not trimmed first.
IsListingUntrimmed(cmd) == HasPrefix(cmd, <<"L", "I", "S", "T", " ">>)

\* nut.go:369-370 and 264-265
IsListing(cmd) == HasPrefix(TrimSpace(cmd), <<"L", "I", "S", "T", " ">>)

\* nut.go:383-386 and 288-291
EndLine(cmd) ==
    IF IsListing(cmd) THEN LinePrefixEnd \o TrimSpace(cmd) \o Newline
    ELSE LineOK \o Newline

\* bufio.Reader.ReadString('\n') on the next line of the stream.
ReadString(line) == line \o Newline

\* Mutant of ReadComplete: the sentinel is recognised by its END prefix alone.
ReadCompleteOnEndPrefix(raw, endLine, multiLineResponse) ==
    HasPrefix(raw, LinePrefixEnd) \/ ~multiLineResponse

\* nut.go:435-437 and 335-337: the line is stored without its delimiter.
ReadAppend(lines, raw) ==
    IF Len(raw) > 0 THEN Append(lines, TrimSuffix(raw, Newline)) ELSE lines

\* nut.go:438 and 338: whether the response is complete after this line.
ReadComplete(raw, endLine, multiLineResponse) ==
    raw = endLine \/ ~multiLineResponse

\* ------------------------------------------ Client.SendCommandWithContext
\* A call is made with a command and a ctx. The call's first statement takes
\* c.mu (nut.go:354): it starts when the lock is free. Its ctx is done
\* already (SendEarlyCancel), or "live": cancelled later (SCtxCancel) or
\* never, as the context.Background() of SendCommand (nut.go:348-350).
\* nut.go:354-366: the lock is taken and ctx is found done.
SendEarlyCancel(p) ==
    /\ SRunning /\ spc[p] = "idle"
    /\ mu = NoCaller
    /\ SReturn(p, [NoSRet EXCEPT !.op = "SendCommand",
                                 !.ctx = "done", !.err = "context canceled"])
    /\ UNCHANGED <<cConn, mu, wire, readers, sent, sCrashed, metrics>>

\* nut.go:354-374: the lock is taken and the command written to c.conn, a
\* nil interface after Close or Disconnect: fmt.Fprint calls Write on it.
SendOnClosed(p) ==
    /\ SRunning /\ spc[p] = "idle"
    /\ mu = NoCaller
    /\ cConn = "nil"
    /\ sCrashed' = "SendCommandWithContext: nil pointer dereference"
    /\ sret' = NoSRet
    /\ UNCHANGED <<cConn, mu, wire, readers, sent, spc, scall, metrics>>

\* nut.go:374-380: the write fails (the peer has gone).
SendWriteFailed(p) ==
    /\ SRunning /\ spc[p] = "idle"
    /\ mu = NoCaller
    /\ cConn = "open"
    /\ SReturn(p, [NoSRet EXCEPT !.op = "SendCommand",
                                 !.ctx = "live", !.err = "failed to send command"])
    /\ UNCHANGED <<cConn, mu, wire, readers, sent, sCrashed, metrics>>

\* nut.go:354-388, 415-444: the lock is taken, the command written (the
\* server's answer is on its way), the read deadline set and the reader
\* goroutine started.
SendWrite(p, cmd) ==
    /\ SRunning /\ spc[p] = "idle"
    /\ mu = NoCaller
    /\ cConn = "open"
    /\ sent < MaxCommands
    /\ \E resp \in Responses(cmd) :
          /\ wire' = wire \o resp
          /\ readers' = [readers EXCEPT ![sent + 1] =
                           [NoReader EXCEPT !.state = "run", !.cmd = cmd,
                                            !.owned = TRUE, !.served = resp]]
    /\ mu' = p
    /\ sent' = sent + 1
    /\ spc' = [spc EXCEPT ![p] = "SendWait"]
    /\ scall' = [scall EXCEPT ![p] = [NoCall EXCEPT !.cmd = cmd, !.ctx = "live",
                                                    !.rid = sent + 1]]
    /\ sret' = NoSRet
    /\ UNCHANGED <<cConn, sCrashed, metrics>>

\* The ctx of the call in progress is cancelled or its deadline passes.
SCtxCancel(p) ==
    /\ SRunning /\ spc[p] = "SendWait"
    /\ scall[p].ctx = "live"
    /\ scall' = [scall EXCEPT ![p].ctx = "done"]
    /\ sret' = NoSRet
    /\ UNCHANGED <<cConn, mu, wire, readers, sent, spc, sCrashed, metrics>>

\* nut.go:427-444: one iteration of the reader goroutine's loop.
ReaderRead(i) ==
    /\ SRunning /\ readers[i].state = "run"
    /\ cConn = "open"
    /\ wire # <<>>
    /\ wire' = Tail(wire)
    /\ LET complete == ReadComplete(ReadString(Head(wire)), EndLine(readers[i].cmd),
                                    IsListing(readers[i].cmd))
       IN  readers' = [readers EXCEPT ![i] =
              IF ~readers[i].owned
              THEN IF complete THEN Gone ELSE @
              ELSE [@ EXCEPT !.lines = ReadAppend(@, ReadString(Head(wire))),
                             !.taken = Append(@, Head(wire)),
                             !.state = IF complete THEN "ok" ELSE "run"]]
    /\ sret' = NoSRet
    /\ UNCHANGED <<cConn, mu, sent, spc, scall, sCrashed, metrics>>

\* nut.go:430-434: ReadString fails: the read deadline passes with nothing to
\* read, or the connection has been closed.
ReaderFail(i) ==
    /\ SRunning /\ readers[i].state = "run"
    /\ wire = <<>> \/ cConn = "nil"
    /\ readers' = [readers EXCEPT ![i] =
          IF readers[i].owned THEN [@ EXCEPT !.state = "err"] ELSE Gone]
    /\ sret' = NoSRet
    /\ UNCHANGED <<cConn, mu, wire, sent, spc, scall, sCrashed, metrics>>

\* nut.go:430: a reader goroutine left behind by a cancelled call evaluates
\* c.reader after Close or Disconnect has set it to nil.
ReaderNilDeref(i) ==
    /\ SRunning /\ readers[i].state = "run"
    /\ cConn = "nil"
    /\ sCrashed' = "readResponseWithContext: nil pointer dereference"
    /\ sret' = NoSRet
    /\ UNCHANGED <<cConn, mu, wire, readers, sent, spc, scall, metrics>>

\* nut.go:396-405 and 308-317: the ERR check on the response.
IsErrResponse(resp) == Len(resp) > 0 /\ HasPrefix(resp[1], LinePrefixErr)
ErrCodeOf(resp) ==
    IF Len(Split(resp[1], " ")) > 1
    THEN errorForMessage(Split(resp[1], " ")[2])
    ELSE errorForMessage(CodeUnknownCommand)

\* nut.go:450-454, 389-411: the reader's result arrives first.
SendResult(p) ==
    /\ SRunning /\ spc[p] = "SendWait"
    /\ readers[scall[p].rid].state \in {"ok", "err"}
    /\ LET r == readers[scall[p].rid]
           base == [NoSRet EXCEPT !.op = "SendCommand", !.cmd = scall[p].cmd,
                                  !.ctx = scall[p].ctx, !.read = r.taken,
                                  !.served = r.served]
       IN  IF r.state = "err"
           THEN SReturn(p, [base EXCEPT !.err = "failed to read response"])
           ELSE IF IsErrResponse(r.lines)
           THEN SReturn(p, [base EXCEPT !.err = "server error", !.code = ErrCodeOf(r.lines)])
           ELSE SReturn(p, [base EXCEPT !.lines = r.lines])
    /\ readers' = [readers EXCEPT ![scall[p].rid] = NoReader]
    /\ mu' = NoCaller
    /\ UNCHANGED <<cConn, wire, sent, sCrashed, metrics>>

\* nut.go:448-449, 389-394: ctx.Done() is chosen; the reader goroutine is left
\* running and the lock released.
SendCancelled(p) ==
    /\ SRunning /\ spc[p] = "SendWait"
    /\ scall[p].ctx = "done"
    /\ SReturn(p, [NoSRet EXCEPT !.op = "SendCommand", !.cmd = scall[p].cmd,
                                 !.ctx = "done", !.err = "failed to read response",
                                 !.read = readers[scall[p].rid].taken,
                                 !.served = readers[scall[p].rid].served])
    /\ readers' = [readers EXCEPT ![scall[p].rid] =
          IF @.state = "run" THEN Left(@.cmd) ELSE Gone]
    /\ mu' = NoCaller
    /\ UNCHANGED <<cConn, wire, sent, sCrashed, metrics>>

\* ------------------------------------------------------------ Client.Close
\* nut.go:248-260, under c.mu from the first line to the last.
ClientClose(p) ==
    /\ SRunning /\ spc[p] = "idle"
    /\ mu = NoCaller
    /\ IF cConn = "nil"
       THEN /\ SReturn(p, [NoSRet EXCEPT !.op = "Close", !.err = ClientCloseErr(cConn)])
            /\ UNCHANGED <<cConn, wire>>
       ELSE /\ cConn' = ClientCloseConn(cConn)
            /\ wire' = <<>>
            /\ \E closeErr \in CloseErrors :
                  SReturn(p, [NoSRet EXCEPT !.op = "Close", !.err = closeErr])
    /\ UNCHANGED <<mu, readers, sent, sCrashed, metrics>>

\* ------------------------------------------------------- Client.Disconnect
\* Mutant of IsGoodbye: any first line counts as the acknowledgement.
IsGoodbyeAny(logoutResp) == Len(logoutResp) > 0

\* nut.go:239: whether LOGOUT was answered with a goodbye.
IsGoodbye(logoutResp) ==
    Len(logoutResp) > 0 /\ (logoutResp[1] = LineGoodbye \/ logoutResp[1] = LineGoodbyeOld)

\* nut.go:302-306: len(line)+1 for each line of the response.
RECURSIVE BytesOf(_)
BytesOf(resp) ==
    IF resp = <<>> THEN 0 ELSE Len(Head(resp)) + 1 + BytesOf(Tail(resp))

\* nut.go:268-273, 293-299: the write or the read of sendCommandUnsafe failed.
MetricsFailed(m) == [m EXCEPT !.CommandsFailed = @ + 1]
\* nut.go:277-281: the command is written.
MetricsSent(m, cmd) ==
    [m EXCEPT !.CommandsSent = @ + 1, !.BytesSent = @ + Len(cmd) + 1]
\* nut.go:302-312: the response is read.
MetricsReceived(m, resp) ==
    [m EXCEPT !.BytesReceived = @ + BytesOf(resp),
              !.CommandsFailed = IF IsErrResponse(resp) THEN @ + 1 ELSE @]

\* nut.go:229-244: the connection is closed whatever LOGOUT gave.
DisconnectClose(p, read, logoutResp) ==
    /\ cConn' = "nil"
    /\ wire' = <<>>
    /\ mu' = NoCaller
    /\ \E closeErr \in CloseErrors :
          SReturn(p, [NoSRet EXCEPT !.op = "Disconnect", !.err = closeErr,
                                    !.ok = closeErr = "nil" /\ IsGoodbye(logoutResp),
                                    !.read = read])

\* nut.go:217-227, 263-281: the lock is taken; on a closed Client the call
\* returns; otherwise LOGOUT is written (sendCommandUnsafe), and when the
\* write fails the connection is closed at once.
DisconnectLock(p) ==
    /\ SRunning /\ spc[p] = "idle"
    /\ mu = NoCaller
    /\ IF cConn = "nil"
       THEN /\ SReturn(p, [NoSRet EXCEPT !.op = "Disconnect",
                                         !.err = "connection already closed"])
            /\ UNCHANGED <<cConn, mu, wire, metrics>>
       ELSE \/ \E resp \in Responses(CmdLOGOUT) :
                 /\ wire' = wire \o resp
                 /\ mu' = p
                 /\ spc' = [spc EXCEPT ![p] = "DisconnectRead"]
                 /\ scall' = [scall EXCEPT ![p] = [NoCall EXCEPT !.cmd = CmdLOGOUT]]
                 /\ sret' = NoSRet
                 /\ metrics' = MetricsSent(metrics, CmdLOGOUT)
                 /\ UNCHANGED cConn
            \/ /\ DisconnectClose(p, <<>>, <<>>)
               /\ metrics' = MetricsFailed(metrics)
    /\ UNCHANGED <<readers, sent, sCrashed>>

\* nut.go:293-319, 323-345: one iteration of ReadResponse for LOGOUT; when
\* the response is complete, or the read fails, the counters, the ERR check
\* and the close (nut.go:229-244) follow.
DisconnectRead(p) ==
    /\ SRunning /\ spc[p] = "DisconnectRead"
    /\ IF wire # <<>>
       THEN LET lines == ReadAppend(scall[p].resp, ReadString(Head(wire)))
            IN  IF ReadComplete(ReadString(Head(wire)), EndLine(scall[p].cmd),
                                IsListing(scall[p].cmd))
                THEN /\ DisconnectClose(p, lines,
                                        IF IsErrResponse(lines) THEN <<>> ELSE lines)
                     /\ metrics' = MetricsReceived(metrics, lines)
                ELSE /\ wire' = Tail(wire)
                     /\ scall' = [scall EXCEPT ![p].resp = lines]
                     /\ sret' = NoSRet
                     /\ UNCHANGED <<cConn, mu, spc, metrics>>
       ELSE /\ DisconnectClose(p, <<>>, <<>>)
            /\ metrics' = MetricsFailed(metrics)
    /\ UNCHANGED <<readers, sent, sCrashed>>

\* ================================================== the life of one Client
Users == 1..NumUsers

NoURet == [op |-> "none", err |-> "nil", ok |-> FALSE, client |-> FALSE, resp |-> <<>>]

\* Before Connect: no Client yet (nut.go:107-112 gives UseTLS false and the
\* empty Version and ProtocolVersion).
ClientInit ==
    /\ sock = "none"
    /\ tConn = "nil"
    /\ tReader = "nil"
    /\ UseTLS = FALSE
    /\ Version = <<>>
    /\ ProtocolVersion = <<>>
    /\ written = <<>>
    /\ connected = FALSE
    /\ upc = [g \in Users |-> "idle"]
    /\ usernameResp = [g \in Users |-> <<>>]
    /\ uret = NoURet

UReturn(g, r) ==
    /\ upc' = [upc EXCEPT ![g] = "idle"]
    /\ uret' = r

UGoto(g, label) ==
    /\ upc' = [upc EXCEPT ![g] = label]
    /\ uret' = NoURet

\* What the server answers to one command of a single-line exchange: the
\* line the command asks for, another line, an ERR line, or nothing before
\* the read deadline.
Replies(cmd) ==
    IF cmd = CmdSTARTTLS
    THEN {<<LineOKStartTLS>>, <<LineOK>>, <<LineErrDenied>>, <<>>}
    ELSE IF cmd \in {CmdUSERNAME, CmdPASSWORD}
    THEN {<<LineOK>>, <<LineVersion>>, <<LineErrDenied>>, <<>>}
    ELSE {<<LineVersion>>, <<LineErrDenied>>, <<>>}

\* nut.go:427-444: the loop that reads one response from the lines that
\* arrive; it fails when they end before the response is complete.
RECURSIVE ReadLoop(_, _, _)
ReadLoop(response, arriving, cmd) ==
    IF arriving = <<>>
    THEN [lines |-> <<>>, ok |-> FALSE]
    ELSE LET raw == ReadString(Head(arriving))
         IN  IF ReadComplete(raw, EndLine(cmd), IsListing(cmd))
             THEN [lines |-> ReadAppend(response, raw), ok |-> TRUE]
             ELSE ReadLoop(ReadAppend(response, raw), Tail(arriving), cmd)

\* nut.go:348-412: what SendCommand returns, the caller's context being
\* context.Background(): wrote tells whether the write succeeded, reply what
\* the server sent.
SendCommandResult(cmd, wrote, reply) ==
    IF ~wrote
    THEN [resp |-> <<>>, err |-> "failed to send command"]
    ELSE IF ~ReadLoop(<<>>, reply, cmd).ok
    THEN [resp |-> <<>>, err |-> "failed to read response"]
    ELSE IF IsErrResponse(ReadLoop(<<>>, reply, cmd).lines)
    THEN [resp |-> <<>>, err |-> "server error"]
    ELSE [resp |-> ReadLoop(<<>>, reply, cmd).lines, err |-> "nil"]

\* nut.go:374: the command reaches the connection's stream.
Written(cmd, wrote) == IF wrote THEN Append(written, cmd) ELSE written

\* ------------------------------------------------------------------ Connect
\* nut.go:101-143: the Client is allocated and the server dialled.
ConnectDial(g) ==
    /\ sock = "none" /\ upc[g] = "idle"
    /\ \A h \in Users : upc[h] = "idle"
    /\ uret.op # "Connect"
    /\ \/ /\ sock' = "open" /\ tConn' = "tcp" /\ tReader' = "tcp"
          /\ UGoto(g, "ConnectVER")
       \/ /\ UReturn(g, [NoURet EXCEPT !.op = "Connect", !.err = "dial failed"])
          /\ UNCHANGED <<sock, tConn, tReader>>
    /\ UNCHANGED <<UseTLS, Version, ProtocolVersion, written, connected, usernameResp>>

\* Mutant of ConnectFailed: the socket is left open.
ConnectFailedOpen(g, err) ==
    /\ UNCHANGED sock
    /\ UReturn(g, [NoURet EXCEPT !.op = "Connect", !.err = err])

\* nut.go:147-153, 156-162: tcpConn.Close() and return nil, err.
ConnectFailed(g, err) ==
    /\ sock' = "closed"
    /\ UReturn(g, [NoURet EXCEPT !.op = "Connect", !.err = err])

\* nut.go:145-153, 510-520: GetVersion; on an error the socket is closed and
\* no Client returned.
ConnectVER(g) ==
    /\ upc[g] = "ConnectVER"
    /\ \E wrote \in BOOLEAN, reply \in Replies(CmdVER) :
          LET r == SendCommandResult(CmdVER, wrote, reply)
          IN  /\ written' = Written(CmdVER, wrote)
              /\ IF r.err # "nil" \/ Len(r.resp) < 1
                 THEN /\ ConnectFailed(g, "failed to get version")
                      /\ UNCHANGED Version
                 ELSE /\ Version' = r.resp[1]
                      /\ UGoto(g, "ConnectNETVER")
                      /\ UNCHANGED sock
    /\ UNCHANGED <<tConn, tReader, UseTLS, ProtocolVersion, connected, usernameResp>>

\* nut.go:155-168, 523-533: GetNetworkProtocolVersion; on an error the socket
\* is closed and no Client returned; otherwise the Client is returned.
ConnectNETVER(g) ==
    /\ upc[g] = "ConnectNETVER"
    /\ \E wrote \in BOOLEAN, reply \in Replies(CmdNETVER) :
          LET r == SendCommandResult(CmdNETVER, wrote, reply)
          IN  /\ written' = Written(CmdNETVER, wrote)
              /\ IF r.err # "nil" \/ Len(r.resp) < 1
                 THEN /\ ConnectFailed(g, "failed to get network protocol version")
                      /\ UNCHANGED <<ProtocolVersion, connected>>
                 ELSE /\ ProtocolVersion' = r.resp[1]
                      /\ connected' = TRUE
                      /\ UReturn(g, [NoURet EXCEPT !.op = "Connect", !.client = TRUE])
                      /\ UNCHANGED sock
    /\ UNCHANGED <<tConn, tReader, UseTLS, Version, usernameResp>>

\* -------------------------------------------------------------- SendCommand
\* nut.go:348-412: a goroutine sends VER on the Client, under c.mu from the
\* write to the result.
UserSend(g) ==
    /\ connected /\ upc[g] = "idle"
    /\ Len(written) < MaxWritten
    /\ \E wrote \in BOOLEAN, reply \in Replies(CmdVER) :
          LET r == SendCommandResult(CmdVER, wrote, reply)
          IN  /\ written' = Written(CmdVER, wrote)
              /\ UReturn(g, [NoURet EXCEPT !.op = "SendCommand", !.err = r.err,
                                           !.resp = r.resp])
    /\ UNCHANGED <<sock, tConn, tReader, UseTLS, Version, ProtocolVersion, connected,
                   usernameResp>>

\* ----------------------------------------------------------------- StartTLS
\* nut.go:178-181: c.UseTLS is read, c.mu not held.
StartTLSCheck(g) ==
    /\ connected /\ upc[g] = "idle"
    /\ Len(written) < MaxWritten
    /\ IF UseTLS
       THEN UReturn(g, [NoURet EXCEPT !.op = "StartTLS", !.err = "already in TLS mode"])
       ELSE UGoto(g, "StartTLSSend")
    /\ UNCHANGED <<sock, tConn, tReader, UseTLS, Version, ProtocolVersion, written,
                   connected, usernameResp>>

\* nut.go:183-193: SendCommand("STARTTLS") and the check of its first line.
StartTLSSend(g) ==
    /\ upc[g] = "StartTLSSend"
    /\ \E wrote \in BOOLEAN, reply \in Replies(CmdSTARTTLS) :
          LET r == SendCommandResult(CmdSTARTTLS, wrote, reply)
          IN  /\ written' = Written(CmdSTARTTLS, wrote)
              /\ IF r.err # "nil"
                 THEN UReturn(g, [NoURet EXCEPT !.op = "StartTLS",
                                                !.err = "STARTTLS command failed"])
                 ELSE IF Len(r.resp) = 0 \/ r.resp[1] # LineOKStartTLS
                 THEN UReturn(g, [NoURet EXCEPT !.op = "StartTLS", !.resp = r.resp,
                                                !.err = "server did not accept STARTTLS"])
                 ELSE UGoto(g, "StartTLSHandshake")
    /\ UNCHANGED <<sock, tConn, tReader, UseTLS, Version, ProtocolVersion, connected,
                   usernameResp>>

\* nut.go:195-207: tls.Client over c.conn and the handshake, c.mu not held.
StartTLSHandshake(g) ==
    /\ upc[g] = "StartTLSHandshake"
    /\ \/ UReturn(g, [NoURet EXCEPT !.op = "StartTLS", !.err = "TLS handshake failed"])
       \/ UGoto(g, "StartTLSSetConn")
    /\ UNCHANGED <<sock, tConn, tReader, UseTLS, Version, ProtocolVersion, written,
                   connected, usernameResp>>

\* nut.go:210: c.conn = tlsConn, c.mu not held.
StartTLSSetConn(g) ==
    /\ upc[g] = "StartTLSSetConn"
    /\ tConn' = "tls"
    /\ UGoto(g, "StartTLSSetReader")
    /\ UNCHANGED <<sock, tReader, UseTLS, Version, ProtocolVersion, written, connected,
                   usernameResp>>

\* nut.go:211: c.reader = bufio.NewReader(tlsConn), c.mu not held.
StartTLSSetReader(g) ==
    /\ upc[g] = "StartTLSSetReader"
    /\ tReader' = "tls"
    /\ UGoto(g, "StartTLSSetFlag")
    /\ UNCHANGED <<sock, tConn, UseTLS, Version, ProtocolVersion, written, connected,
                   usernameResp>>

\* nut.go:212-213: c.UseTLS = true, c.mu not held; the call returns.
StartTLSSetFlag(g) ==
    /\ upc[g] = "StartTLSSetFlag"
    /\ UseTLS' = TRUE
    /\ UReturn(g, [NoURet EXCEPT !.op = "StartTLS"])
    /\ UNCHANGED <<sock, tConn, tReader, Version, ProtocolVersion, written, connected,
                   usernameResp>>

\* ------------------------------------------------------------- Authenticate
\* nut.go:460-463: SendCommand("USERNAME ...").
AuthUsername(g) ==
    /\ connected /\ upc[g] = "idle"
    /\ Len(written) < MaxWritten
    /\ \E wrote \in BOOLEAN, reply \in Replies(CmdUSERNAME) :
          LET r == SendCommandResult(CmdUSERNAME, wrote, reply)
          IN  /\ written' = Written(CmdUSERNAME, wrote)
              /\ IF r.err # "nil"
                 THEN /\ UReturn(g, [NoURet EXCEPT !.op = "Authenticate", !.err = r.err])
                      /\ UNCHANGED usernameResp
                 ELSE /\ usernameResp' = [usernameResp EXCEPT ![g] = r.resp]
                      /\ UGoto(g, "AuthPassword")
    /\ UNCHANGED <<sock, tConn, tReader, UseTLS, Version, ProtocolVersion, connected>>

\* Mutant of AuthOK: only the answer to PASSWORD is looked at.
AuthOKPasswordOnly(userResp, passwordResp) ==
    Len(passwordResp) > 0 /\ passwordResp[1] = LineOK

\* nut.go:464-471: SendCommand("PASSWORD ...") and the comparison of both
\* first lines with "OK".
AuthOK(userResp, passwordResp) ==
    /\ Len(userResp) > 0 /\ userResp[1] = LineOK
    /\ Len(passwordResp) > 0 /\ passwordResp[1] = LineOK

AuthPassword(g) ==
    /\ upc[g] = "AuthPassword"
    /\ \E wrote \in BOOLEAN, reply \in Replies(CmdPASSWORD) :
          LET r == SendCommandResult(CmdPASSWORD, wrote, reply)
          IN  /\ written' = Written(CmdPASSWORD, wrote)
              /\ IF r.err # "nil"
                 THEN UReturn(g, [NoURet EXCEPT !.op = "Authenticate", !.err = r.err])
                 ELSE UReturn(g, [NoURet EXCEPT !.op = "Authenticate", !.resp = r.resp,
                                                !.ok = AuthOK(usernameResp[g], r.resp)])
    /\ usernameResp' = [usernameResp EXCEPT ![g] = <<>>]
    /\ UNCHANGED <<sock, tConn, tReader, UseTLS, Version, ProtocolVersion, connected>>

\* ======================================================== the device layer
\* No call of the device layer is modelled.
NoJob == [kind |-> "none"]
NoResult == [fn |-> "none"]

\* Command texts: a word, what follows it, and blanks around both.
ClassifyJobs ==
    LET blanks(n) == [i \in 1..n |-> " "]
    IN  {[kind |-> "classify", cmd |-> blanks(i) \o word \o rest \o blanks(j)] :
            i \in 0..MaxBlanks, j \in 0..MaxBlanks,
            word \in {<<"L", "I", "S", "T">>, <<"l", "i", "s", "t">>,
                      <<"L", "I", "S", "T", "X">>, <<"G", "E", "T">>},
            rest \in {<<>>, <<" ", "a">>, <<"\t", "a">>, <<" ", " ", "a">>, <<"\n">>}}

\* nut.go:368-386: SendCommandWithContext classifies the command and
\* computes the line that ends its response.
ClassifyLocked ==
    /\ job.kind = "classify" /\ result = NoResult
    /\ result' = [fn |-> "SendCommandWithContext",
                  multiLineResponse |-> IsListing(job.cmd),
                  endLine |-> EndLine(job.cmd)]
    /\ UNCHANGED job

\* nut.go:264-265, 288-291: sendCommandUnsafe does the same.
multiLineResponseUnsafe(cmd) == HasPrefix(TrimSpace(cmd), <<"L", "I", "S", "T", " ">>)

ClassifyUnsafe ==
    /\ job.kind = "classify" /\ result = NoResult
    /\ result' = [fn |-> "sendCommandUnsafe",
                  multiLineResponse |-> multiLineResponseUnsafe(job.cmd),
                  endLine |-> IF multiLineResponseUnsafe(job.cmd)
                              THEN LinePrefixEnd \o TrimSpace(job.cmd) \o Newline
                              ELSE LineOK \o Newline]
    /\ UNCHANGED job

\* ----------------------------------------------------------- GetVariableType
\* The device the calls are about.
UpsName == <<"a">>

\* ups.go:246-317. reply is the answer SendCommand gave to GET TYPE, <<>>
\* when it failed.
GetVariableType(variableName, reply) ==
    LET trimmedLine == TrimPrefix(reply[1], <<"T", "Y", "P", "E", " ">> \o UpsName \o <<" ">>
                                            \o variableName \o <<" ">>)
        splitLine   == Split(trimmedLine, " ")
        flagged     == Len(splitLine) >= 2 /\ splitLine[1] \in {<<"R", "W">>, <<"R", "O">>}
        writeable   == flagged /\ splitLine[1] = <<"R", "W">>
        varType     == IF flagged THEN splitLine[2] ELSE splitLine[1]
        splitType   == Split(varType, ":")
        UNKNOWN     == <<"U", "N", "K", "N", "O", "W", "N">>
    IN  IF reply = <<>>
        THEN [varType |-> UNKNOWN, writeable |-> FALSE, maximumLength |-> -1,
              err |-> "send command failed"]
        ELSE IF Len(splitLine) < 1
        THEN [varType |-> UNKNOWN, writeable |-> FALSE, maximumLength |-> -1,
              err |-> "invalid TYPE response format"]
        ELSE IF HasPrefix(varType, <<"S", "T", "R", "I", "N", "G", ":">>) /\ Len(splitType) >= 2
        THEN IF ParseInt(splitType[2]).err # "nil"
             THEN [varType |-> splitType[1], writeable |-> writeable,
                   maximumLength |-> -1, err |-> ParseInt(splitType[2]).err]
             ELSE [varType |-> splitType[1], writeable |-> writeable,
                   maximumLength |-> ParseInt(splitType[2]).n, err |-> "nil"]
        ELSE [varType |-> varType, writeable |-> writeable,
              maximumLength |-> 0, err |-> "nil"]

\* The answers to GET TYPE: a failure, or "TYPE <ups> <var> " and then a
\* flag or none, and a type token or none.
TypeJobs ==
    LET RECURSIVE DigitTexts(_)
        DigitTexts(n) ==
            IF n = 0 THEN {}
            ELSE {<<d>> : d \in {"0", "2"}} \cup DigitTexts(n - 1)
                 \cup {t \o <<d>> : t \in DigitTexts(n - 1), d \in {"0", "2"}}
        tokens ==
            {<<>>, <<"N", "U", "M", "B", "E", "R">>, <<"E", "N", "U", "M">>,
             <<"R", "A", "N", "G", "E">>, <<"S", "T", "R", "I", "N", "G">>}
            \cup {<<"S", "T", "R", "I", "N", "G", ":">> \o n :
                     n \in DigitTexts(MaxDigits)
                           \cup {<<>>, <<"x">>, <<"2", "x">>, <<"2", ":", "x">>, <<"-", "2">>}}
        rests ==
            {flag \o token : flag \in {<<>>, <<"R", "W", " ">>, <<"R", "O", " ">>},
                             token \in tokens}
            \cup {<<"R", "W">>, <<"R", "O">>}
    IN  {[kind |-> "type", failed |-> FALSE, rest |-> rest] : rest \in rests}
        \cup {[kind |-> "type", failed |-> TRUE, rest |-> <<>>]}

GetVariableTypeCall ==
    /\ job.kind = "type" /\ result = NoResult
    /\ result' =
           [fn  |-> "GetVariableType",
            out |-> GetVariableType(<<"b">>,
                       IF job.failed THEN <<>>
                       ELSE << <<"T", "Y", "P", "E", " ">> \o UpsName \o <<" ">> \o <<"b">>
                               \o <<" ">> \o job.rest >>)]
    /\ UNCHANGED job

\* -------------------------------------------------------------- GetVariables
\* ups.go:10: numericRegex, ^-?\d+(?:\.\d+)?$
numericRegex(str) ==
    LET body  == IF str # <<>> /\ Head(str) = "-" THEN Tail(str) ELSE str
        parts == Split(body, ".")
    IN  Len(parts) \in {1, 2} /\ \A i \in 1..Len(parts) : IsDigits(parts[i])

\* strconv.ParseFloat(str, 64) of a text numericRegex matches and that has a
\* decimal point; the float is written by its sign, its whole part without
\* leading zeros and its fraction without trailing zeros, which is exact
\* for texts of a few digits.
ParseFloat(str) ==
    LET RECURSIVE Leading(_)
        Leading(t) == IF Len(t) > 1 /\ Head(t) = "0" THEN Leading(Tail(t)) ELSE t
        RECURSIVE Trailing(_)
        Trailing(t) ==
            IF t # <<>> /\ t[Len(t)] = "0" THEN Trailing(SubSeq(t, 1, Len(t) - 1)) ELSE t
        neg   == str # <<>> /\ Head(str) = "-"
        parts == Split(IF neg THEN Tail(str) ELSE str, ".")
    IN  [err |-> "nil",
         f   |-> [neg |-> neg, whole |-> Leading(parts[1]), fraction |-> Trailing(parts[2])]]

OriginalTypeInferred(varType, Type) == Type

InferredTypeAsReported(value, varType) ==
    [Type |-> varType, Value |-> [kind |-> "string", s |-> value]]

\* ups.go:185-222: the type and the value of a variable, from the text
\* between the quotes and the type GetVariableType returned. OriginalType
\* is assigned varType on every path.
InferredType(value, varType) ==
    LET TypeINTEGER == <<"I", "N", "T", "E", "G", "E", "R">>
        TypeFLOAT64 == <<"F", "L", "O", "A", "T", "_", "6", "4">>
        TypeSTRING  == <<"S", "T", "R", "I", "N", "G">>
        TypeBOOLEAN == <<"B", "O", "O", "L", "E", "A", "N">>
        text    == [Type |-> varType, Value |-> [kind |-> "string", s |-> value]]
        numeric ==
            IF ~numericRegex(value) THEN text
            ELSE IF \E i \in 1..Len(value) : value[i] = "."
            THEN IF ParseFloat(value).err = "nil"
                 THEN [Type |-> TypeFLOAT64, Value |-> [kind |-> "float", f |-> ParseFloat(value).f]]
                 ELSE text
            ELSE IF ParseInt(value).err = "nil"
                 THEN [Type |-> TypeINTEGER, Value |-> [kind |-> "int", n |-> ParseInt(value).n]]
                 ELSE text
    IN  IF value = <<"e", "n", "a", "b", "l", "e", "d">>
        THEN [Type |-> TypeBOOLEAN, Value |-> [kind |-> "bool", b |-> TRUE]]
        ELSE IF value = <<"d", "i", "s", "a", "b", "l", "e", "d">>
        THEN [Type |-> TypeBOOLEAN, Value |-> [kind |-> "bool", b |-> FALSE]]
        ELSE IF numeric.Type = varType
        THEN [Type |-> TypeSTRING, Value |-> numeric.Value]
        ELSE numeric

OriginalTypeOf(varType, Type) == varType

GetVariablesCachesOnError(failed, resp, answers) ==
    [vars |-> <<>>, err |-> "send command failed", queries |-> <<>>, Variables |-> <<>>]

GetVariablesStrict(failed, resp, answers) ==
    [vars |-> <<>>, err |-> "malformed line", queries |-> <<>>, Variables |-> "unchanged"]

\* ups.go:146-228. failed: SendCommand("LIST VAR <ups>") failed; resp: the
\* lines it returned; answers[i]: what the server answers to GET DESC and
\* GET TYPE for the variable of line i of resp (<<>>: the command fails).
GetVariables(failed, resp, answers) ==
    LET offset == <<"V", "A", "R", " ">> \o UpsName \o <<" ">>
        GET(what, name) == <<"G", "E", "T", " ">> \o what \o <<" ">> \o UpsName \o <<" ">> \o name
        RECURSIVE Walk(_, _, _)
        Walk(i, acc, cmds) ==
            IF i > Len(resp) - 1
            THEN [vars |-> acc, err |-> "nil", queries |-> cmds, Variables |-> acc]
            ELSE
            LET splitLine == Split(TrimPrefix(resp[i], offset), "\"")
                value     == TrimBlanks(splitLine[2])
                Name      == TrimSuffix(splitLine[1], <<" ">>)
                desc      == answers[i].desc
                \* GetVariableDescription, ups.go:232-243
                Description ==
                    SelectSeq(TrimPrefix(desc[1], <<"D", "E", "S", "C", " ">> \o UpsName \o <<" ">> \o Name \o <<" ">>),
                              LAMBDA ch : ch # "\"")
                type      == GetVariableType(Name, answers[i].type)
                sentDesc  == Append(cmds, GET(<<"D", "E", "S", "C">>, Name))
                sentType  == Append(sentDesc, GET(<<"T", "Y", "P", "E">>, Name))
                inferred  == InferredType(value, type.varType)
            IN  IF Len(splitLine) < 2 THEN Walk(i + 1, acc, cmds)
                ELSE IF desc = <<>>
                THEN [vars |-> acc, err |-> "send command failed", queries |-> sentDesc,
                      Variables |-> "unchanged"]
                ELSE IF type.err # "nil"
                THEN [vars |-> acc, err |-> type.err, queries |-> sentType,
                      Variables |-> "unchanged"]
                ELSE Walk(i + 1,
                          Append(acc, [Name          |-> Name,
                                        Description   |-> Description,
                                        Type          |-> inferred.Type,
                                        OriginalType  |-> OriginalTypeOf(type.varType,
                                                                         inferred.Type),
                                        Value         |-> inferred.Value,
                                        Writeable     |-> type.writeable,
                                        MaximumLength |-> type.maximumLength]),
                          sentType)
        listed == << <<"L", "I", "S", "T", " ", "V", "A", "R", " ">> \o UpsName >>
    IN  IF failed
        THEN [vars |-> <<>>, err |-> "send command failed", queries |-> listed,
              Variables |-> "unchanged"]
        ELSE IF Len(resp) < 2
        THEN [vars |-> <<>>, err |-> "nil", queries |-> listed, Variables |-> <<>>]
        ELSE Walk(2, <<>>, listed)

\* A listing of variables and the answers to the queries about each: one
\* entry with every value and every type, or up to MaxEntries entries of a
\* few kinds (no quoted part; sound; description refused; type refused).
VariableJobs ==
    LET values == {<<"4", "2">>, <<"-", "7">>, <<"0", "0", "7">>, <<"1", ".", "5", "0">>, <<"-", "0", ".", "5">>, <<"e", "n", "a", "b", "l", "e", "d">>, <<"d", "i", "s", "a", "b", "l", "e", "d">>, <<"a", "b", "c">>,
                   <<" ", "4", "2", " ">>, <<"1", ".">>, <<>>, <<"9", "9", "9", "9", "9", "9", "9", "9", "9", "9", "9", "9", "9", "9", "9", "9", "9", "9", "9", "9">>}
        types  == {<<"N", "U", "M", "B", "E", "R">>, <<"R", "W", " ", "S", "T", "R", "I", "N", "G", ":", "2", "0">>, <<"I", "N", "T", "E", "G", "E", "R">>, <<"F", "L", "O", "A", "T", "_", "6", "4">>, <<"B", "O", "O", "L", "E", "A", "N">>, <<"S", "T", "R", "I", "N", "G">>,
                   <<"R", "O", " ", "E", "N", "U", "M">>}
        Entry(name, quoted, desc, type) ==
            [line |-> <<"V", "A", "R", " ">> \o UpsName \o <<" ">> \o name \o quoted,
             desc |-> IF desc THEN << <<"D", "E", "S", "C", " ">> \o UpsName \o <<" ">> \o name \o <<" ", "\"", "d", "\"">> >>
                      ELSE <<>>,
             type |-> IF type = <<>> THEN <<>>
                      ELSE << <<"T", "Y", "P", "E", " ">> \o UpsName \o <<" ">> \o name \o <<" ">> \o type >>]
        Quoted(value) == <<" ", "\"">> \o value \o <<"\"">>
        few == {Entry(<<"m">>, <<>>, TRUE, <<"N", "U", "M", "B", "E", "R">>),
                Entry(<<"b">>, Quoted(<<"4", "2">>), TRUE, <<"N", "U", "M", "B", "E", "R">>),
                Entry(<<"c">>, Quoted(<<"x">>), FALSE, <<"S", "T", "R", "I", "N", "G">>),
                Entry(<<"d">>, Quoted(<<"1">>), TRUE, <<"S", "T", "R", "I", "N", "G", ":", "x">>)}
        listings ==
            {<<Entry(<<"b">>, Quoted(value), TRUE, type)>> : value \in values, type \in types}
            \cup UNION {[1..n -> few] : n \in 0..MaxEntries}
        Job(failed, header, entries) ==
            [kind    |-> "variables", failed |-> failed, entries |-> entries,
             resp    |-> header \o [i \in 1..Len(entries) |-> entries[i].line]
                         \o << <<"E", "N", "D", " ", "L", "I", "S", "T", " ", "V", "A", "R", " ">> \o UpsName >>,
             answers |-> [i \in 1..(Len(header) + Len(entries)) |->
                             IF i <= Len(header) THEN [desc |-> <<>>, type |-> <<>>]
                             ELSE [desc |-> entries[i - Len(header)].desc,
                                   type |-> entries[i - Len(header)].type]]]
    IN  {Job(FALSE, << <<"B", "E", "G", "I", "N", " ", "L", "I", "S", "T", " ", "V", "A", "R", " ">> \o UpsName >>, entries) : entries \in listings}
        \cup {Job(TRUE, <<>>, <<>>), Job(FALSE, <<>>, <<>>)}

GetVariablesCall ==
    /\ job.kind = "variables" /\ result = NoResult
    /\ result' = [fn |-> "GetVariables", out |-> GetVariables(job.failed, job.resp, job.answers)]
    /\ UNCHANGED job

\* ------------------------------------- GetCommands, GetClients, GetUPSList
\* Listings of commands, of clients and of devices, each of up to
\* MaxEntries entries, with the answers to the queries about each entry
\* (<<>>: the command fails).
ListJobs ==
    LET Listing(kind, failed, header, entries, sentinel) ==
            [kind    |-> kind, failed |-> failed, entries |-> entries,
             resp    |-> header \o [i \in 1..Len(entries) |-> entries[i].line] \o sentinel,
             answers |-> [i \in 1..(Len(header) + Len(entries)) |->
                             IF i <= Len(header) THEN <<>>
                             ELSE entries[i - Len(header)].answers]]
        Of(kind, header, few, sentinel) ==
            {Listing(kind, FALSE, header, entries, sentinel) :
                entries \in UNION {[1..n -> few] : n \in 0..MaxEntries}}
            \cup {Listing(kind, TRUE, <<>>, <<>>, <<>>),
                  Listing(kind, FALSE, <<>>, <<>>, sentinel)}
        commandEntries ==
            {[line    |-> <<"C", "M", "D", " ">> \o UpsName \o <<" ", name>>,
              answers |-> IF described
                          THEN << << <<"C", "M", "D", "D", "E", "S", "C", " ">> \o UpsName \o <<" ", name>> \o <<" ", "\"", "d", "\"">> >> >>
                          ELSE << <<>> >>] :
                name \in {"x", "y"}, described \in BOOLEAN}
        clientEntries ==
            {[line |-> <<"C", "L", "I", "E", "N", "T", " ">> \o UpsName \o <<" ", host>>, answers |-> <<>>] :
                host \in {"h", "k"}}
        deviceEntries ==
            {[line    |-> <<"U", "P", "S", " ", name>> \o <<" ", "\"", "d", "\"">>,
              answers |-> <<IF described
                            THEN << <<"U", "P", "S", "D", "E", "S", "C", " ", name>> \o <<" ", "\"", "d", "\"">> >>
                            ELSE <<>>,
                            IF logins = <<>> THEN <<>>
                            ELSE << <<"N", "U", "M", "L", "O", "G", "I", "N", "S", " ", name, " ">>
                                    \o logins >> >>] :
                name \in {"a", "b"}, described \in BOOLEAN,
                logins \in {<<>>, <<"1">>, <<"x">>}}
    IN  Of("commands", << <<"B", "E", "G", "I", "N", " ", "L", "I", "S", "T", " ", "C", "M", "D", " ">> \o UpsName >>, commandEntries,
           << <<"E", "N", "D", " ", "L", "I", "S", "T", " ", "C", "M", "D", " ">> \o UpsName >>)
        \cup Of("clients", << <<"B", "E", "G", "I", "N", " ", "L", "I", "S", "T", " ", "C", "L", "I", "E", "N", "T", " ">> \o UpsName >>, clientEntries,
                << <<"E", "N", "D", " ", "L", "I", "S", "T", " ", "C", "L", "I", "E", "N", "T", " ">> \o UpsName >>)
        \cup Of("devices", << <<"B", "E", "G", "I", "N", " ", "L", "I", "S", "T", " ", "U", "P", "S">> >>, deviceEntries, << <<"E", "N", "D", " ", "L", "I", "S", "T", " ", "U", "P", "S">> >>)

\* ups.go:320-345 (GetCommands) with ups.go:348-359 (GetCommandDescription).
GetCommandsCall ==
    /\ job.kind = "commands" /\ result = NoResult
    /\ LET linePrefix == <<"C", "M", "D", " ">> \o UpsName \o <<" ">>
           listed == << <<"L", "I", "S", "T", " ", "C", "M", "D", " ">> \o UpsName >>
           RECURSIVE Walk(_, _, _)
           Walk(i, commandsList, cmds) ==
               IF i > Len(job.resp) - 1
               THEN [commandsList |-> commandsList, err |-> "nil", queries |-> cmds,
                     Commands |-> commandsList]
               ELSE
               LET cmdName  == TrimPrefix(job.resp[i], linePrefix)
                   query    == <<"G", "E", "T", " ", "C", "M", "D", "D", "E", "S", "C", " ">> \o UpsName \o <<" ">> \o cmdName
                   reply    == job.answers[i][1]
                   description ==
                       SelectSeq(TrimPrefix(reply[1], <<"C", "M", "D", "D", "E", "S", "C", " ">> \o UpsName \o <<" ">>
                                                      \o cmdName \o <<" ">>),
                                 LAMBDA ch : ch # "\"")
               IN  IF reply = <<>>
                   THEN [commandsList |-> commandsList, err |-> "send command failed",
                         queries |-> Append(cmds, query), Commands |-> "unchanged"]
                   ELSE Walk(i + 1,
                             Append(commandsList,
                                    [Name |-> cmdName, Description |-> description]),
                             Append(cmds, query))
       IN  result' =
              [fn  |-> "GetCommands",
               out |-> IF job.failed
                       THEN [commandsList |-> <<>>, err |-> "send command failed",
                             queries |-> listed, Commands |-> "unchanged"]
                       ELSE IF Len(job.resp) < 2
                       THEN [commandsList |-> <<>>, err |-> "nil", queries |-> listed,
                             Commands |-> <<>>]
                       ELSE Walk(2, <<>>, listed)]
    /\ UNCHANGED job

GetClientsCallShort ==
    /\ job.kind = "clients" /\ result = NoResult
    /\ result' = [fn  |-> "GetClients",
                  out |-> [clientsList |-> <<>>, err |-> "empty response",
                           queries |-> <<>>, Clients |-> "unchanged"]]
    /\ UNCHANGED job

\* ups.go:100-116
GetClientsCall ==
    /\ job.kind = "clients" /\ result = NoResult
    /\ LET linePrefix == <<"C", "L", "I", "E", "N", "T", " ">> \o UpsName \o <<" ">>
           listed == << <<"L", "I", "S", "T", " ", "C", "L", "I", "E", "N", "T", " ">> \o UpsName >>
           clientsList == [i \in 1..(Len(job.resp) - 2) |->
                              TrimPrefix(job.resp[i + 1], linePrefix)]
       IN  result' =
              [fn  |-> "GetClients",
               out |-> IF job.failed
                       THEN [clientsList |-> <<>>, err |-> "send command failed",
                             queries |-> listed, Clients |-> "unchanged"]
                       ELSE IF Len(job.resp) < 2
                       THEN [clientsList |-> <<>>, err |-> "nil", queries |-> listed,
                             Clients |-> "unchanged"]
                       ELSE [clientsList |-> clientsList, err |-> "nil", queries |-> listed,
                             Clients |-> clientsList]]
    /\ UNCHANGED job

NewUPSFailing(name, replies) ==
    [ups |-> [Name |-> name, Description |-> <<>>, NumberOfLogins |-> 0],
     err |-> IF replies[1] = <<>> \/ replies[2] = <<>> THEN "send command failed" ELSE "nil",
     queries |-> <<>>]

\* ups.go:53-80 (NewUPS) with ups.go:132-143 (GetDescription) and
\* ups.go:83-97 (GetNumberOfLogins); replies: the answers to the two.
NewUPS(name, replies) ==
    LET logins == ParseInt(TrimPrefix(replies[2][1], <<"N", "U", "M", "L", "O", "G", "I", "N", "S", " ">> \o name \o <<" ">>))
    IN  [ups |-> [Name |-> name,
                  Description |->
                      IF replies[1] = <<>> THEN <<>>
                      ELSE TrimPrefix(SelectSeq(replies[1][1], LAMBDA ch : ch # "\""),
                                      <<"U", "P", "S", "D", "E", "S", "C", " ">> \o name \o <<" ">>),
                  NumberOfLogins |->
                      IF replies[2] = <<>> \/ logins.err # "nil" THEN 0 ELSE logins.n],
         err |-> "nil",
         queries |-> << <<"G", "E", "T", " ", "U", "P", "S", "D", "E", "S", "C", " ">> \o name, <<"G", "E", "T", " ", "N", "U", "M", "L", "O", "G", "I", "N", "S", " ">> \o name >>]

\* nut.go:475-495
GetUPSListCall ==
    /\ job.kind = "devices" /\ result = NoResult
    /\ LET listed == << <<"L", "I", "S", "T", " ", "U", "P", "S">> >>
           RECURSIVE Walk(_, _, _)
           Walk(i, upsList, cmds) ==
               IF i > Len(job.resp)
               THEN [upsList |-> upsList, err |-> "nil", queries |-> cmds]
               ELSE
               LET splitLine == Split(TrimPrefix(job.resp[i], <<"U", "P", "S", " ">>), "\"")
                   newUPS    == NewUPS(TrimSuffix(splitLine[1], <<" ">>), job.answers[i])
               IN  IF ~HasPrefix(job.resp[i], <<"U", "P", "S", " ">>) \/ Len(splitLine) < 1
                   THEN Walk(i + 1, upsList, cmds)
                   ELSE IF newUPS.err # "nil"
                   THEN [upsList |-> upsList, err |-> newUPS.err,
                         queries |-> cmds \o newUPS.queries]
                   ELSE Walk(i + 1, Append(upsList, newUPS.ups), cmds \o newUPS.queries)
       IN  result' =
              [fn  |-> "GetUPSList",
               out |-> IF job.failed
                       THEN [upsList |-> <<>>, err |-> "send command failed",
                             queries |-> listed]
                       ELSE Walk(1, <<>>, listed)]
    /\ UNCHANGED job

\* ---------------------------------------------------------------- quoteName
\* strings.ReplaceAll(str, old, new) for a one-character old.
RECURSIVE ReplaceAll(_, _, _)
ReplaceAll(str, old, new) ==
    IF str = <<>> THEN <<>>
    ELSE (IF Head(str) = old THEN new ELSE <<Head(str)>>) \o ReplaceAll(Tail(str), old, new)

quoteNameBare(name) == name

\* ups.go:13-21
quoteName(name) ==
    IF \E i \in 1..Len(name) : name[i] \in {" ", "\t", "\n", "\r", "\""}
    THEN <<"\"">>
         \o ReplaceAll(ReplaceAll(name, "\\", <<"\\", "\\">>), "\"", <<"\\", "\"">>)
         \o <<"\"">>
    ELSE name

\* The server's reading of a word: the wrapping quotes are stripped if
\* present, then every backslash and the character after it are replaced
\* by that character; a backslash that ends the word stays.
Unquote(word) ==
    LET RECURSIVE Unescape(_)
        Unescape(str) ==
            IF str = <<>> THEN <<>>
            ELSE IF Head(str) = "\\" /\ Len(str) >= 2
            THEN <<str[2]>> \o Unescape(SubSeq(str, 3, Len(str)))
            ELSE <<Head(str)>> \o Unescape(Tail(str))
    IN  IF Len(word) >= 2 /\ Head(word) = "\"" /\ word[Len(word)] = "\""
        THEN Unescape(SubSeq(word, 2, Len(word) - 1))
        ELSE Unescape(word)

\* Names and values of up to MaxNameLen characters, and the calls made with
\* them: quoteName on a name; SetVariable on a variable and a value;
\* UPS.SendCommand, CheckIfMaster and ForceShutdown; each with what the
\* server answers (<<>>: nothing before the read deadline).
CallJobs ==
    LET texts   == UNION {[1..n -> {"a", " ", "\t", "\n", "\"", "\\"}] : n \in 0..MaxNameLen}
        replies == {<<LineOK>>, << <<"O", "K", " ", "F", "S", "D", "-", "S", "E", "T">> >>, << <<"O", "K", " ">> >>, <<LineVersion>>,
                    <<LineErrDenied>>, <<>>}
    IN  {[kind |-> "quoteName", name |-> name] : name \in texts}
        \cup {[kind |-> "SetVariable", name |-> name, value |-> value, reply |-> reply] :
                 name \in {<<"b">>, <<"b", " ", "c">>}, value \in texts, reply \in replies}
        \cup {[kind |-> kind, name |-> name, reply |-> reply] :
                 kind \in {"SendCommand", "CheckIfMaster", "ForceShutdown"},
                 name \in {<<"x">>, <<"x", " ", "y">>}, reply \in replies}

QuoteNameCall ==
    /\ job.kind = "quoteName" /\ result = NoResult
    /\ result' = [fn |-> "quoteName", out |-> quoteName(job.name)]
    /\ UNCHANGED job

SetVariableCallUnescaped ==
    /\ job.kind = "SetVariable" /\ result = NoResult
    /\ LET cmd == <<"S", "E", "T", " ", "V", "A", "R", " ">> \o quoteName(UpsName) \o <<" ">> \o quoteName(job.name)
                  \o <<" ", "\"">> \o job.value \o <<"\"">>
           r   == SendCommandResult(cmd, TRUE, job.reply)
       IN  result' = [fn |-> "SetVariable", queries |-> <<cmd>>, err |-> r.err,
                      ok |-> r.err = "nil" /\ Len(r.resp) > 0 /\ r.resp[1] = LineOK]
    /\ UNCHANGED job

\* ups.go:363-376
SetVariableCall ==
    /\ job.kind = "SetVariable" /\ result = NoResult
    /\ LET escapedValue ==
               ReplaceAll(ReplaceAll(job.value, "\\", <<"\\", "\\">>), "\"", <<"\\", "\"">>)
           cmd == <<"S", "E", "T", " ", "V", "A", "R", " ">> \o quoteName(UpsName) \o <<" ">> \o quoteName(job.name)
                  \o <<" ", "\"">> \o escapedValue \o <<"\"">>
           r   == SendCommandResult(cmd, TRUE, job.reply)
       IN  result' = [fn |-> "SetVariable", queries |-> <<cmd>>, err |-> r.err,
                      ok |-> r.err = "nil" /\ Len(r.resp) > 0 /\ r.resp[1] = LineOK]
    /\ UNCHANGED job

\* ups.go:379-388: UPS.SendCommand
UPSSendCommandCall ==
    /\ job.kind = "SendCommand" /\ result = NoResult
    /\ LET cmd == <<"I", "N", "S", "T", "C", "M", "D", " ">> \o quoteName(UpsName) \o <<" ">> \o quoteName(job.name)
           r   == SendCommandResult(cmd, TRUE, job.reply)
       IN  result' = [fn |-> "SendCommand", queries |-> <<cmd>>, err |-> r.err,
                      ok |-> r.err = "nil" /\ Len(r.resp) > 0 /\ r.resp[1] = LineOK,
                      Master |-> FALSE]
    /\ UNCHANGED job

\* ups.go:119-129
CheckIfMasterCall ==
    /\ job.kind = "CheckIfMaster" /\ result = NoResult
    /\ LET cmd == <<"M", "A", "S", "T", "E", "R", " ">> \o quoteName(UpsName)
           r   == SendCommandResult(cmd, TRUE, job.reply)
           ok  == r.err = "nil" /\ Len(r.resp) > 0 /\ r.resp[1] = LineOK
       IN  result' = [fn |-> "CheckIfMaster", queries |-> <<cmd>>, err |-> r.err,
                      ok |-> ok, Master |-> ok]
    /\ UNCHANGED job

ForceShutdownCallOnOK ==
    /\ job.kind = "ForceShutdown" /\ result = NoResult
    /\ LET cmd == <<"F", "S", "D", " ">> \o quoteName(UpsName)
           r   == SendCommandResult(cmd, TRUE, job.reply)
       IN  result' = [fn |-> "ForceShutdown", queries |-> <<cmd>>, err |-> r.err,
                      ok |-> r.err = "nil" /\ Len(r.resp) > 0 /\ r.resp[1] = LineOK,
                      Master |-> FALSE]
    /\ UNCHANGED job

\* ups.go:399-408
ForceShutdownCall ==
    /\ job.kind = "ForceShutdown" /\ result = NoResult
    /\ LET cmd == <<"F", "S", "D", " ">> \o quoteName(UpsName)
           r   == SendCommandResult(cmd, TRUE, job.reply)
       IN  result' = [fn |-> "ForceShutdown", queries |-> <<cmd>>, err |-> r.err,
                      ok |-> r.err = "nil" /\ Len(r.resp) > 0 /\ r.resp[1] = <<"O", "K", " ", "F", "S", "D", "-", "S", "E", "T">>,
                      Master |-> FALSE]
    /\ UNCHANGED job

\* ------------------------------------------------------- the specifications
Init ==
    /\ PoolInit /\ SessionInit /\ ClientInit /\ job = NoJob /\ result = NoResult
    /\ getNet = [p \in Callers |-> 0]

\* A step of the Pool leaves the Client of the session part alone, and a step
\* on that Client leaves the Pool alone.
\* A step of caller q moves pc[q]; what it adds to activeClients is counted
\* for q's call until the call returns.
OfPool(A) ==
    /\ A
    /\ getNet' = [q \in Callers |->
                    IF pc[q] = "idle" \/ pc'[q] = "idle" THEN 0
                    ELSE IF pc'[q] # pc[q] THEN getNet[q] + activeClients' - activeClients
                    ELSE getNet[q]]
    /\ UNCHANGED <<sessionVars, clientVars, deviceVars>>
OfSession(A) == A /\ UNCHANGED <<poolVars, clientVars, deviceVars, getNet>>
OfClient(A) == A /\ UNCHANGED <<poolVars, sessionVars, deviceVars, getNet>>
OfDevice(A) == A /\ UNCHANGED <<poolVars, sessionVars, clientVars, getNet>>

\* The Pool, with callers that hand to Put only Clients they got from Get.
Next ==
    \E p \in Callers :
        \/ OfPool(GetStart(p))
        \/ OfPool(CtxCancel(p))
        \/ OfPool(GetCheckClosed(p))
        \/ OfPool(GetTryIdle(p))
        \/ OfPool(GetDiscardDead(p))
        \/ OfPool(GetReserve(p))
        \/ OfPool(GetWaitRecv(p))
        \/ OfPool(GetWaitCancelled(p))
        \/ OfPool(GetConnectOk(p))
        \/ OfPool(GetConnectFailed(p))
        \/ OfPool(PutNil(p))
        \/ OfPool(PutStart(p))
        \/ OfPool(PutCheckClosed(p))
        \/ OfPool(PutSend(p))
        \/ OfPool(CloseMark(p))
        \/ OfPool(CloseChan(p))
        \/ OfPool(CloseDrain(p))
        \/ OfPool(Stats(p))
        \/ OfPool(HolderClose(p))

Spec == Init /\ [][Next]_vars

\* A step inside a call of caller p: the goroutine is runnable (or becomes
\* so when its select has a ready case) and the Go scheduler runs it. When
\* a caller starts a call, and when its context is cancelled, is the
\* caller's choice, so no fairness is stated for those.
CallStep(p) ==
    \/ OfPool(GetCheckClosed(p))
    \/ OfPool(GetTryIdle(p))
    \/ OfPool(GetDiscardDead(p))
    \/ OfPool(GetReserve(p))
    \/ OfPool(GetWaitRecv(p))
    \/ OfPool(GetWaitCancelled(p))
    \/ OfPool(GetConnectOk(p))
    \/ OfPool(GetConnectFailed(p))
    \/ OfPool(PutCheckClosed(p))
    \/ OfPool(PutSend(p))
    \/ OfPool(CloseChan(p))
    \/ OfPool(CloseDrain(p))

\* The Pool under the scheduler's fairness: a call that can take a step
\* does not wait forever.
FairSpec == Init /\ [][Next]_vars /\ \A p \in Callers : WF_vars(CallStep(p))

\* The Pool, with callers that also open Clients with Connect and hand them
\* to Put.
NextOpen ==
    \E p \in Callers :
        \/ OfPool(GetStart(p))
        \/ OfPool(CtxCancel(p))
        \/ OfPool(GetCheckClosed(p))
        \/ OfPool(GetTryIdle(p))
        \/ OfPool(GetDiscardDead(p))
        \/ OfPool(GetReserve(p))
        \/ OfPool(GetWaitRecv(p))
        \/ OfPool(GetWaitCancelled(p))
        \/ OfPool(GetConnectOk(p))
        \/ OfPool(GetConnectFailed(p))
        \/ OfPool(PutNil(p))
        \/ OfPool(PutStart(p))
        \/ OfPool(PutCheckClosed(p))
        \/ OfPool(PutSend(p))
        \/ OfPool(CloseMark(p))
        \/ OfPool(CloseChan(p))
        \/ OfPool(CloseDrain(p))
        \/ OfPool(Stats(p))
        \/ OfPool(HolderClose(p))
        \/ OfPool(ConnectDirect(p))

OpenSpec == Init /\ [][NextOpen]_vars

\* One Client used by several goroutines (the Pool is left as NewPool made it).
SessionSpecInit == Init /\ maxSize = DefaultPoolSize

SessionSpecNext ==
    \/ \E p \in SCallers :
        \/ OfSession(SendEarlyCancel(p))
        \/ OfSession(SendOnClosed(p))
        \/ OfSession(SendWriteFailed(p))
        \/ \E cmd \in Commands : OfSession(SendWrite(p, cmd))
        \/ OfSession(SCtxCancel(p))
        \/ OfSession(SendResult(p))
        \/ OfSession(SendCancelled(p))
        \/ OfSession(ClientClose(p))
        \/ OfSession(DisconnectLock(p))
        \/ OfSession(DisconnectRead(p))
    \/ \E i \in ReaderIds :
        \/ OfSession(ReaderRead(i))
        \/ OfSession(ReaderFail(i))
        \/ OfSession(ReaderNilDeref(i))

SessionSpec == SessionSpecInit /\ [][SessionSpecNext]_vars

\* The life of one Client (the Pool is left as NewPool made it).
ClientSpecNext ==
    \E g \in Users :
        \/ OfClient(ConnectDial(g))
        \/ OfClient(ConnectVER(g))
        \/ OfClient(ConnectNETVER(g))
        \/ OfClient(UserSend(g))
        \/ OfClient(StartTLSCheck(g))
        \/ OfClient(StartTLSSend(g))
        \/ OfClient(StartTLSHandshake(g))
        \/ OfClient(StartTLSSetConn(g))
        \/ OfClient(StartTLSSetReader(g))
        \/ OfClient(StartTLSSetFlag(g))
        \/ OfClient(AuthUsername(g))
        \/ OfClient(AuthPassword(g))

ClientSpec == SessionSpecInit /\ [][ClientSpecNext]_vars

\* The device layer and the classification: one call on the inputs drawn.
Jobs == ClassifyJobs \cup TypeJobs \cup VariableJobs \cup ListJobs \cup CallJobs

DeviceSpecInit ==
    /\ PoolInit /\ maxSize = DefaultPoolSize
    /\ SessionInit /\ ClientInit
    /\ job \in Jobs /\ result = NoResult
    /\ getNet = [p \in Callers |-> 0]

DeviceSpecNext ==
    \/ OfDevice(ClassifyLocked)
    \/ OfDevice(ClassifyUnsafe)
    \/ OfDevice(GetVariableTypeCall)
    \/ OfDevice(GetVariablesCall)
    \/ OfDevice(GetCommandsCall)
    \/ OfDevice(GetClientsCall)
    \/ OfDevice(GetUPSListCall)
    \/ OfDevice(QuoteNameCall)
    \/ OfDevice(SetVariableCall)
    \/ OfDevice(UPSSendCommandCall)
    \/ OfDevice(CheckIfMasterCall)
    \/ OfDevice(ForceShutdownCall)

DeviceSpec == DeviceSpecInit /\ [][DeviceSpecNext]_vars

\* ======================================================== the Pool's claims
Holders(s) == {p \in Callers : held[p] = s}
InPut(s) == {p \in Callers : arg[p] = s}
QueueSlots(s) == {i \in 1..Len(clients) : clients[i] = s}
Owning == {p \in Callers : held[p] # NoClient}

C3_ExclusiveOwnership ==
    /\ \A s \in Sessions :
          Cardinality(Holders(s)) + Cardinality(InPut(s)) + Cardinality(QueueSlots(s)) <= 1
    /\ (ret.op = "Get" /\ ret.client # NoClient) =>
          (Cardinality(Holders(ret.client)) = 1 /\ QueueSlots(ret.client) = {})

\* A Get hands out an idle Client while another caller owns another Client.
C3_Witness ==
    /\ ret.op = "Get" /\ ret.via = "idle"
    /\ \E q \in Callers : held[q] # NoClient /\ held[q] # ret.client

\* C4: in a pool of maximum size 1 at most one caller owns a Client, and an
\* owned Client is neither idle nor inside a Put (so no Get returns a Client
\* before the holder's Put has queued it); the Get that waited returns the
\* Client the Put queued, which is the pool's only Client, and the step
\* allocates no connection and leaves the active count as it was.
C4_SizeOneHandsOverTheSameClient ==
    /\ [](maxSize = 1 =>
            /\ Cardinality(Owning) <= 1
            /\ Owning # {} => (clients = <<>> /\ \A p \in Callers : arg[p] = NoClient))
    /\ [][(maxSize = 1 /\ ret'.op = "Get" /\ ret'.via = "wait" /\ ret'.client # NoClient) =>
            /\ clients # <<>> /\ ret'.client = Head(clients)
            /\ \A s \in Sessions : s # ret'.client => conn[s] = "none"
            /\ conn' = conn
            /\ activeClients' = activeClients]_vars

\* In a pool of maximum size 1 a Get that had to wait returned a Client.
C4_Witness ==
    maxSize = 1 /\ ret.op = "Get" /\ ret.via = "wait" /\ ret.client # NoClient

\* C9 (as claimed): no interleaving of Get, Put, Close and Stats ends in a
\* runtime panic (a send on the closed queue, a nil Client dereferenced, the
\* queue closed twice).
C9_NoCallPanics ==
    crashed = "none"

\* C10 (as claimed): a Get that returns yields a Client and no error, or no
\* Client and an error, never neither.
C10_GetReturnsClientOrError ==
    ret.op = "Get" => ((ret.client # NoClient) # (ret.err # "nil"))

\* ====================================================== the Client's claims
Started(i) == readers[i].state \in {"run", "ok", "err"}
Reading(i) == readers[i].state = "run"
\* A reader goroutine whose call has returned without it.
Abandoned(i) == readers[i].state = "gone" \/ (Reading(i) /\ ~readers[i].owned)

\* The text of a line up to its first blank.
RECURSIVE UpToBlank(_)
UpToBlank(str) ==
    IF str = <<>> \/ Head(str) = " " THEN <<>> ELSE <<Head(str)>> \o UpToBlank(Tail(str))
\* The code of an ERR line: the token between "ERR " and the next blank.
CodeOfLine(line) == UpToBlank(SubSeq(line, Len(LinePrefixErr) + 1, Len(line)))
\* The sentinel of a listing command.
Sentinel(cmd) == LinePrefixEnd \o TrimSpace(cmd)

\* C1: whenever a command is written to the Client's stream, no reader of the
\* stream is still running: the response read of the command before it has
\* finished.
C1_NoReaderRunsWhenACommandIsWritten ==
    [][sent' = sent + 1 => \A i \in ReaderIds : ~Reading(i)]_vars

\* C5: a call whose ctx is not cancelled and whose first response line
\* begins with "ERR " returns the typed failure of the line's code (the
\* unknown-command failure for a code outside the taxonomy) and no lines,
\* for a single-line and for a listing command alike.
C5_ErrLineGivesTheTypedFailure ==
    (/\ sret.op = "SendCommand"
     /\ sret.ctx = "live"
     /\ sret.read # <<>>
     /\ HasPrefix(sret.read[1], LinePrefixErr))
    => /\ sret.err = "server error"
       /\ sret.code = (IF CodeOfLine(sret.read[1]) \in TaxonomyCodes
                       THEN CodeOfLine(sret.read[1]) ELSE CodeUnknownCommand)
       /\ sret.lines = <<>>

\* C6: response framing. The reader of a call for a non-listing command
\* takes one line and is then finished; the reader of a call for a listing
\* command is finished exactly when the last line it took equals
\* "END <trimmed command>", and took no such line before; the lines it hands
\* over are the lines it took, in order, without their delimiters, and a
\* successful call returns them; the LOGOUT read of Disconnect takes at most
\* one line.
FramedAsSingle(taken, finished) ==
    /\ Len(taken) <= 1
    /\ finished <=> Len(taken) = 1
FramedAsListing(taken, finished, cmd) ==
    /\ \A k \in 1..(Len(taken) - 1) : taken[k] # Sentinel(cmd)
    /\ finished <=> (taken # <<>> /\ taken[Len(taken)] = Sentinel(cmd))
Framed(taken, finished, cmd) ==
    IF HasPrefix(TrimSpace(cmd), <<"L", "I", "S", "T", " ">>)
    THEN FramedAsListing(taken, finished, cmd)
    ELSE FramedAsSingle(taken, finished)
C6_ResponseFraming ==
    /\ \A i \in ReaderIds :
          (Started(i) /\ readers[i].owned) =>
             /\ readers[i].lines = readers[i].taken
             /\ Framed(readers[i].taken, readers[i].state = "ok", readers[i].cmd)
    /\ (sret.op = "SendCommand" /\ sret.err \in {"nil", "server error"}) =>
          Framed(sret.read, TRUE, sret.cmd)
    /\ (sret.op = "SendCommand" /\ sret.err = "nil") => sret.lines = sret.read
    /\ sret.op = "Disconnect" => Len(sret.read) <= 1
\* A listing call has returned a response in which it read through the END
\* line of another listing up to its own sentinel.
C6_Witness ==
    /\ sret.op = "SendCommand" /\ sret.err = "nil"
    /\ HasPrefix(TrimSpace(sret.cmd), <<"L", "I", "S", "T", " ">>)
    /\ \E k \in 1..(Len(sret.lines) - 1) : HasPrefix(sret.lines[k], LinePrefixEnd)
    /\ sret.lines[Len(sret.lines)] = Sentinel(sret.cmd)

\* C7: once Close or Disconnect has closed the Client (its connection nil),
\* a SendCommand on it does not crash, and returns the session-closed failure.
C7_UseAfterCloseFailsSafely ==
    [][cConn = "nil" =>
          /\ sCrashed' # "SendCommandWithContext: nil pointer dereference"
          /\ (sret'.op = "SendCommand" /\ sret'.ctx = "live")
                => sret'.err = "connection already closed"]_vars

\* C8: once a call has returned on cancellation, leaving its reader behind,
\* a later call that succeeds returns exactly the lines the server sent for
\* its command.
C8_NextCommandAfterCancelGetsItsOwnResponse ==
    (/\ \E i \in ReaderIds : Abandoned(i)
     /\ sret.op = "SendCommand"
     /\ sret.err = "nil")
    => sret.lines = sret.served

\* ============================================= the Pool's claims, continued
\* C11: the closed mark is never taken back, and a Get that takes the lock
\* with the pool marked closed returns the pool-closed error in that step,
\* with no Client, creating none and leaving the active count as it was.
C11_GetAfterCloseFails ==
    [][/\ closed => closed'
       /\ \A p \in Callers :
             (pc[p] = "GetCheckClosed" /\ closed /\ pc'[p] # "GetCheckClosed")
             => /\ ret'.op = "Get"
                /\ ret'.err = "pool is closed"
                /\ ret'.client = NoClient
                /\ held'[p] = NoClient
                /\ conn' = conn
                /\ clients' = clients
                /\ activeClients' = activeClients]_vars
\* A Get has just failed on the closed pool while another caller holds a Client.
C11_Witness ==
    /\ closed
    /\ ret.op = "Get" /\ ret.via = "closed"
    /\ \E q \in Callers : held[q] # NoClient

\* C12: when a Pool.Close call has returned, no Client is left idle in the
\* queue: each has been taken out and closed, and Stats reports idle = 0.
C12_CloseLeavesNoIdleClient ==
    ret.op = "Close" => clients = <<>>

\* C13: a Put of a Client that reaches its send (nut.go:647) makes the
\* Client idle, open, when the pool is open and the queue has room, and
\* closes it, not idle, when the pool is closed or the queue is full; a Put
\* that finds the pool closed at its check closes the Client; Put(nil)
\* changes nothing of the pool and returns no error.
C13_PutIdlesOrCloses ==
    [][/\ \A p \in Callers :
            (pc[p] = "PutSend" /\ (pc'[p] = "idle" \/ crashed' # "none"))
            => IF ~closed /\ Len(clients) < maxSize
               THEN /\ clients' = Append(clients, arg[p])
                    /\ conn'[arg[p]] = "open" <=> conn[arg[p]] = "open"
                    /\ ret'.err = "nil"
               ELSE /\ clients' = clients
                    /\ conn'[arg[p]] # "open"
                    /\ crashed' = "none"
       /\ \A p \in Callers :
            (pc[p] = "PutCheckClosed" /\ closed /\ pc'[p] = "idle")
            => clients' = clients /\ conn'[arg[p]] # "open"
       /\ (ret'.op = "Put" /\ ret'.client = NoClient)
            => /\ ret'.err = "nil"
               /\ UNCHANGED <<clients, closed, chanClosed, activeClients, conn, held>>]_vars

\* C14: a Get blocked because the active count is at the maximum does not
\* wait forever while an idle Client stays queued or once its context is
\* cancelled; when it returns it returns a Client, or the cancellation error
\* with the queue and the active count left as they were.
C14_BlockedGetEventuallyReturns ==
    /\ \A p \in Callers :
          (pc[p] = "GetWait" /\ (ctxDone[p] \/ clients # <<>>))
          ~> (pc[p] # "GetWait" \/ (clients = <<>> /\ ~ctxDone[p]))
    /\ [][\A p \in Callers :
            (pc[p] = "GetWait" /\ pc'[p] = "idle")
            => \/ /\ ret'.client # NoClient /\ ret'.err = "nil"
                  /\ held'[p] = ret'.client
               \/ /\ ret'.client = NoClient /\ ret'.err = "context canceled"
                  /\ ctxDone[p]
                  /\ clients' = clients /\ activeClients' = activeClients]_vars

\* C17: Close or Disconnect on a Client whose connection is already closed
\* returns the already-closed error, writes nothing (no LOGOUT) and changes
\* nothing of the Client; over any interleaving of calls the connection is
\* closed once: only an open connection is closed, and a call of Close or
\* Disconnect that finds it open leaves it closed.
C17_CloseOfClosedChangesNothing ==
    [][/\ (cConn = "nil" /\ sret'.op \in {"Close", "Disconnect"})
          => /\ sret'.err = "connection already closed" /\ ~sret'.ok
             /\ UNCHANGED <<cConn, mu, wire, readers, sent, spc, scall, metrics, sCrashed>>
       /\ cConn' # cConn => (cConn = "open" /\ cConn' = "nil")
       /\ (cConn = "open" /\ sret'.op \in {"Close", "Disconnect"}) => cConn' = "nil"]_vars
C17_Witness ==
    /\ cConn = "nil" /\ sret.op = "Disconnect"
    /\ sret.err = "connection already closed"
    /\ metrics.CommandsSent = 1

\* The first line a Disconnect read is the logout acknowledgement.
AckRead(read) == read # <<>> /\ read[1] \in {LineGoodbye, LineGoodbyeOld}

\* C18 as stated: Disconnect on an open Client closes the connection and
\* sets the handle to nil whatever the LOGOUT exchange gave, and returns
\* true exactly when the acknowledgement was the first line it read.
C18_TrueExactlyOnAck ==
    [][(cConn = "open" /\ sret'.op = "Disconnect")
       => /\ cConn' = "nil" /\ mu' = NoCaller
          /\ sret'.ok <=> AckRead(sret'.read)]_vars

\* C18, amended: Disconnect on an open Client closes the connection and sets
\* the handle to nil whatever the LOGOUT exchange gave (write failure, read
\* failure and ERR reply are ignored); it returns true exactly when the
\* acknowledgement was the first line it read and closing the connection
\* reported no error, and then LOGOUT had been written.
C18_TrueExactlyOnAckAndCleanClose ==
    [][(cConn = "open" /\ sret'.op = "Disconnect")
       => /\ cConn' = "nil" /\ mu' = NoCaller
          /\ sret'.ok <=> (AckRead(sret'.read) /\ sret'.err = "nil")
          /\ sret'.ok => metrics'.CommandsSent = metrics.CommandsSent
          /\ sret'.read # <<>> => metrics.CommandsSent > 0]_vars
C18_Witness ==
    /\ sret.op = "Disconnect" /\ sret.ok /\ cConn = "nil"
    /\ sret.read = <<LineGoodbye>>

\* C20: the counters follow every command: a command written through
\* SendCommand or SendCommandWithContext adds one to CommandsSent, a
\* command that fails adds one to CommandsFailed, and the lines of a
\* response add their length + 1 each to BytesReceived, so CommandsSent is
\* never below the number of commands written.
C20_MetricsCountEveryCommand ==
    [][/\ sent' = sent + 1 => metrics'.CommandsSent = metrics.CommandsSent + 1
       /\ (sret'.op = "SendCommand" /\ sret'.err # "nil" /\ sret'.ctx = "live")
             => metrics'.CommandsFailed = metrics.CommandsFailed + 1
       /\ (sret'.op = "SendCommand" /\ sret'.err = "nil")
             => metrics'.BytesReceived = metrics.BytesReceived + BytesOf(sret'.lines)
       /\ metrics'.CommandsSent >= sent']_vars

\* ================================================= the Client's life: claims
\* C15: Connect returns either the Client, with the connection open and
\* Version and ProtocolVersion both set from the answers to VER and then
\* NETVER, or no Client and an error, with the connection not open; when
\* VER fails NETVER is not written; a Client in use always has both set.
C15_ConnectAllOrNothing ==
    [][/\ uret'.op = "Connect"
          => IF uret'.client
             THEN /\ uret'.err = "nil" /\ connected'
                  /\ sock' = "open" /\ tConn' = "tcp" /\ tReader' = "tcp"
                  /\ Version' # <<>> /\ ProtocolVersion' # <<>>
                  /\ written' = <<CmdVER, CmdNETVER>>
             ELSE /\ uret'.err # "nil" /\ ~connected'
                  /\ sock' # "open"
       /\ \A g \in Users :
             (upc[g] = "ConnectVER" /\ upc'[g] = "idle")
             => /\ uret'.op = "Connect" /\ ~uret'.client
                /\ \A i \in 1..Len(written') : written'[i] # CmdNETVER
       /\ connected' => (sock' = "open" /\ Version' # <<>> /\ ProtocolVersion' # <<>>)]_vars
C15_Witness ==
    /\ uret.op = "Connect" /\ uret.client
    /\ sock = "open" /\ Version = LineVersion /\ ProtocolVersion = LineVersion

\* C16: StartTLS on a Client whose UseTLS is set fails and writes no
\* command; a StartTLS that returns an error leaves c.conn, c.reader and
\* c.UseTLS as they were; and UseTLS becomes true only in the step that
\* swaps in the TLS connection and its reader, so that every command on the
\* Client is written and read through a pair that agrees with UseTLS.
C16_StartTLSSwapsInOneStep ==
    [][/\ (uret'.op = "StartTLS" /\ upc' = upc)
          => (UseTLS /\ uret'.err = "already in TLS mode" /\ written' = written)
       /\ \A g \in Users : (upc[g] = "idle" /\ upc'[g] = "StartTLSSend") => ~UseTLS
       /\ (uret'.op = "StartTLS" /\ uret'.err # "nil")
          => UNCHANGED <<tConn, tReader, UseTLS, sock>>
       /\ UseTLS' # UseTLS
          => (UseTLS' /\ tConn = "tcp" /\ tReader = "tcp" /\ tConn' = "tls" /\ tReader' = "tls")
       /\ written' # written
          => ((tConn = "tls" <=> UseTLS) /\ (tReader = "tls" <=> UseTLS))]_vars

\* C19: Authenticate writes USERNAME before PASSWORD: PASSWORD is written
\* only by a call whose USERNAME exchange returned no error; when that
\* exchange fails the call returns the error at once; and the call returns
\* true exactly when neither exchange failed and the first line of both
\* responses is "OK".
C19_AuthenticateNeedsBothOK ==
    [][/\ \A g \in Users :
             (upc[g] = "idle" /\ upc'[g] = "AuthPassword")
             => (written' = Append(written, CmdUSERNAME) /\ usernameResp'[g] # <<>>)
       /\ (uret'.op = "Authenticate" /\ upc' = upc)
             => /\ uret'.err # "nil" /\ ~uret'.ok
                /\ written' \in {written, Append(written, CmdUSERNAME)}
       /\ \A g \in Users :
             (upc[g] = "AuthPassword" /\ upc'[g] = "idle")
             => /\ uret'.op = "Authenticate"
                /\ written' \in {written, Append(written, CmdPASSWORD)}
                /\ uret'.ok <=> /\ uret'.err = "nil"
                                /\ usernameResp[g][1] = LineOK
                                /\ uret'.resp # <<>> /\ uret'.resp[1] = LineOK
       /\ (written' # written /\ written'[Len(written')] = CmdPASSWORD)
             => \E g \in Users : upc[g] = "AuthPassword" /\ upc'[g] = "idle"]_vars
C19_Witness ==
    /\ uret.op = "Authenticate" /\ uret.ok
    /\ \E i \in 1..Len(written) - 1 :
          written[i] = CmdUSERNAME /\ written[i + 1] = CmdPASSWORD

\* ================================================= the device layer: claims
\* The text between the first and the last character that is not white
\* space begins with "LIST " and goes on after it.
ListingByText(cmd) ==
    \E a \in 1..Len(cmd) : \E b \in a..Len(cmd) :
        /\ \A k \in 1..(a - 1) : cmd[k] \in {" ", "\t", "\n", "\r"}
        /\ \A k \in (b + 1)..Len(cmd) : cmd[k] \in {" ", "\t", "\n", "\r"}
        /\ cmd[a] \notin {" ", "\t", "\n", "\r"} /\ cmd[b] \notin {" ", "\t", "\n", "\r"}
        /\ b - a + 1 > 5
        /\ cmd[a] = "L" /\ cmd[a + 1] = "I" /\ cmd[a + 2] = "S" /\ cmd[a + 3] = "T"
        /\ cmd[a + 4] = " "

\* C21: a command is classified as a listing exactly when its trimmed text
\* begins with "LIST " followed by more text, on the locked send path and on
\* the unlocked one alike; a listing's response ends with "END " and the
\* trimmed text, every other response with its first line.
C21_ListingIffTrimmedTextBeginsWithLIST ==
    result.fn \in {"SendCommandWithContext", "sendCommandUnsafe"}
    => /\ result.multiLineResponse <=> ListingByText(job.cmd)
       /\ result.multiLineResponse
             => \E a \in 1..Len(job.cmd) :
                   /\ job.cmd[a] = "L" /\ (a > 1 => job.cmd[a - 1] = " ")
                   /\ HasPrefix(SubSeq(job.cmd, a, Len(job.cmd)) \o Newline,
                                SubSeq(result.endLine, 5, Len(result.endLine) - 1))
       /\ ~result.multiLineResponse => result.endLine = <<"O", "K", "\n">>
C21_Witness ==
    /\ result.fn = "sendCommandUnsafe" /\ result.multiLineResponse
    /\ job.cmd[1] = " " /\ job.cmd[Len(job.cmd)] = " "


\* C25: GetVariableType reads both shapes of a TYPE answer: after "RW " the
\* variable is writeable and the type is the second token, after "RO " it is
\* not writeable and the type is the second token, without a flag it is not
\* writeable and the type is the first token; in each shape STRING:<N> gives
\* the type STRING with the maximum length N, and a token without a length
\* gives the maximum length 0.
C25_TypeShapesParsed ==
    result.fn = "GetVariableType" /\ ~job.failed =>
        \A flag \in {<<>>, <<"R", "W", " ">>, <<"R", "O", " ">>} :
            /\ \A token \in {<<"N", "U", "M", "B", "E", "R">>, <<"E", "N", "U", "M">>,
                              <<"R", "A", "N", "G", "E">>, <<"S", "T", "R", "I", "N", "G">>} :
                   job.rest = flag \o token =>
                       result.out = [varType |-> token, writeable |-> flag = <<"R", "W", " ">>,
                                     maximumLength |-> 0, err |-> "nil"]
            /\ \A tens, units \in 0..2 :
                   job.rest = flag \o <<"S", "T", "R", "I", "N", "G", ":">>
                                   \o <<ToString(tens), ToString(units)>> =>
                       result.out = [varType |-> <<"S", "T", "R", "I", "N", "G">>,
                                     writeable |-> flag = <<"R", "W", " ">>,
                                     maximumLength |-> 10 * tens + units, err |-> "nil"]

\* "RW STRING:20" has been parsed.
C25_Witness ==
    /\ result.fn = "GetVariableType" /\ ~job.failed
    /\ job.rest = <<"R", "W", " ", "S", "T", "R", "I", "N", "G", ":", "2", "0">>
    /\ result.out.maximumLength = 20 /\ result.out.writeable

\* C26: a TYPE token STRING:<s> whose s is not a decimal integer makes
\* GetVariableType return an error, never a length.
C26_BadStringLengthIsAnError ==
    result.fn = "GetVariableType" /\ ~job.failed =>
        \A flag \in {<<>>, <<"R", "W", " ">>, <<"R", "O", " ">>} :
            \A s \in {<<>>, <<"x">>, <<"2", "x">>, <<"2", ":", "x">>} :
                job.rest = flag \o <<"S", "T", "R", "I", "N", "G", ":">> \o s =>
                    result.out.err # "nil"

\* C27: a TYPE answer without a type token (nothing after the prefix, or a
\* lone RW or RO) makes GetVariableType fail; neither the empty text nor the
\* flag is returned as the type.
C27_NoTypeTokenIsAnError ==
    result.fn = "GetVariableType" /\ ~job.failed
        /\ job.rest \in {<<>>, <<"R", "W">>, <<"R", "O">>} =>
            result.out.err # "nil"
\* GetVariables has returned the one variable of a listing of one entry.
OneVariable ==
    /\ result.fn = "GetVariables"
    /\ Len(job.entries) = 1 /\ Len(result.out.vars) = 1

\* The text between the quotes of that entry, and the type token the server
\* reported for it (the last word of the answer to GET TYPE).
RawValue == Split(job.entries[1].line, "\"")[2]
ReportedToken ==
    LET words == Split(job.entries[1].type[1], " ") IN words[Len(words)]

\* C22: whatever type token the server reports, a value matching ^-?\d+$
\* gets the inferred type INTEGER with an integer Value, a value matching
\* ^-?\d+\.\d+$ the inferred type FLOAT_64 with a floating-point Value, and
\* every other value but enabled and disabled the inferred type STRING with
\* the text itself as the Value.
C22_InferenceFollowsTheValue ==
    OneVariable =>
        LET v == result.out.vars[1] IN
        /\ RawValue \in {<<"4", "2">>, <<"-", "7">>, <<"0", "0", "7">>, <<"9", "9", "9", "9", "9", "9", "9", "9", "9", "9", "9", "9", "9", "9", "9", "9", "9", "9", "9", "9">>} =>
               v.Type = <<"I", "N", "T", "E", "G", "E", "R">> /\ v.Value.kind = "int"
        /\ RawValue \in {<<"1", ".", "5", "0">>, <<"-", "0", ".", "5">>} =>
               v.Type = <<"F", "L", "O", "A", "T", "_", "6", "4">> /\ v.Value.kind = "float"
        /\ RawValue \in {<<"a", "b", "c">>, <<"1", ".">>, <<>>} =>
               v.Type = <<"S", "T", "R", "I", "N", "G">> /\ v.Value = [kind |-> "string", s |-> RawValue]

\* C23: a variable whose value is exactly enabled (disabled) gets the
\* inferred type BOOLEAN and the Value true (false), whatever type the
\* server reported.
C23_EnabledDisabledAreBoolean ==
    OneVariable =>
        LET v == result.out.vars[1] IN
        /\ RawValue = <<"e", "n", "a", "b", "l", "e", "d">> =>
               v.Type = <<"B", "O", "O", "L", "E", "A", "N">> /\ v.Value = [kind |-> "bool", b |-> TRUE]
        /\ RawValue = <<"d", "i", "s", "a", "b", "l", "e", "d">> =>
               v.Type = <<"B", "O", "O", "L", "E", "A", "N">> /\ v.Value = [kind |-> "bool", b |-> FALSE]

\* A variable valued enabled, reported as a NUMBER, has come out BOOLEAN.
C23_Witness ==
    /\ OneVariable
    /\ RawValue = <<"e", "n", "a", "b", "l", "e", "d">> /\ ReportedToken = <<"N", "U", "M", "B", "E", "R">>
    /\ result.out.vars[1].Type = <<"B", "O", "O", "L", "E", "A", "N">>

EmptyListing == ~job.failed /\ Len(job.resp) = 2 /\ job.entries = <<>>

\* C28: on a listing of the header line and the sentinel line only,
\* GetVariables, GetCommands and GetClients return an empty list and no
\* error, and send nothing but the listing command.
C28_EmptyListingGivesEmptyList ==
    /\ result.fn = "GetVariables" /\ EmptyListing =>
           /\ result.out.vars = <<>> /\ result.out.err = "nil"
           /\ result.out.queries = << <<"L", "I", "S", "T", " ", "V", "A", "R", " ", "a">> >>
    /\ result.fn = "GetCommands" /\ EmptyListing =>
           /\ result.out.commandsList = <<>> /\ result.out.err = "nil"
           /\ result.out.queries = << <<"L", "I", "S", "T", " ", "C", "M", "D", " ", "a">> >>
    /\ result.fn = "GetClients" /\ EmptyListing =>
           /\ result.out.clientsList = <<>> /\ result.out.err = "nil"
           /\ result.out.queries = << <<"L", "I", "S", "T", " ", "C", "L", "I", "E", "N", "T", " ", "a">> >>

\* GetClients has returned from a listing without entries.
C28_Witness ==
    /\ result.fn = "GetClients" /\ EmptyListing
    /\ result.out.clientsList = <<>> /\ result.out.err = "nil"

\* C29: GetVariables skips an entry line without a quoted part: it sends no
\* query about it and does not fail because of it; when no query about a
\* sound entry fails, the sound entries are returned in the listing's order,
\* with two queries sent for each.
C29_MalformedEntriesSkipped ==
    result.fn = "GetVariables" /\ ~job.failed /\ Len(job.resp) >= 2 =>
        LET Sound(e)  == \E k \in 1..Len(e.line) : e.line[k] = "\""
            NameOf(e) == <<e.line[7]>>
            Refused(e) == e.desc = <<>> \/ GetVariableType(NameOf(e), e.type).err # "nil"
            sound     == SelectSeq(job.entries, Sound)
            out       == result.out
        IN  /\ \A i \in 1..Len(job.entries) :
                   ~Sound(job.entries[i]) =>
                       \A k \in 1..Len(out.queries) :
                           out.queries[k] \notin
                               {<<"G", "E", "T", " ", "D", "E", "S", "C", " ", "a", " ">> \o NameOf(job.entries[i]),
                                <<"G", "E", "T", " ", "T", "Y", "P", "E", " ", "a", " ">> \o NameOf(job.entries[i])}
            /\ (\A i \in 1..Len(sound) : ~Refused(sound[i])) =>
                   /\ out.err = "nil"
                   /\ Len(out.vars) = Len(sound)
                   /\ \A i \in 1..Len(sound) : out.vars[i].Name = NameOf(sound[i])
                   /\ Len(out.queries) = 1 + 2 * Len(sound)

\* A listing of an entry without a quoted part and then a sound one has
\* given the sound one.
C29_Witness ==
    /\ result.fn = "GetVariables" /\ ~job.failed
    /\ Len(job.entries) = 2
    /\ job.entries[1].line = <<"V", "A", "R", " ", "a", " ", "m">>
    /\ job.entries[2].line = <<"V", "A", "R", " ", "a", " ", "b", " ", "\"", "4", "2", "\"">>
    /\ result.out.err = "nil"
    /\ Len(result.out.vars) = 1 /\ result.out.vars[1].Name = <<"b">>

\* C30: when LIST UPS succeeds, GetUPSList returns no error and one device
\* for each UPS line, in the listing's order, whatever the description and
\* the login-count queries answer; for each device exactly those two
\* queries are sent.
C30_OneDevicePerEntry ==
    result.fn = "GetUPSList" /\ ~job.failed =>
        LET out == result.out IN
        /\ out.err = "nil"
        /\ Len(out.upsList) = Len(job.entries)
        /\ \A i \in 1..Len(job.entries) :
               /\ out.upsList[i].Name = <<job.entries[i].line[5]>>
               /\ out.queries[2 * i] = <<"G", "E", "T", " ", "U", "P", "S", "D", "E", "S", "C", " ">> \o out.upsList[i].Name
               /\ out.queries[2 * i + 1] = <<"G", "E", "T", " ", "N", "U", "M", "L", "O", "G", "I", "N", "S", " ">> \o out.upsList[i].Name
        /\ Len(out.queries) = 1 + 2 * Len(job.entries)
        /\ out.queries[1] = <<"L", "I", "S", "T", " ", "U", "P", "S">>

\* Two devices have been returned although both queries about the first
\* failed.
C30_Witness ==
    /\ result.fn = "GetUPSList" /\ ~job.failed
    /\ Len(job.entries) = 2
    /\ job.entries[1].answers = << <<>>, <<>> >>
    /\ Len(result.out.upsList) = 2 /\ result.out.err = "nil"
\* str with every backslash doubled and every double quote prefixed by a
\* backslash, character by character.
RECURSIVE EscapedText(_)
EscapedText(str) ==
    IF str = <<>> THEN <<>>
    ELSE (CASE Head(str) = "\\" -> <<"\\", "\\">>
            [] Head(str) = "\"" -> <<"\\", "\"">>
            [] OTHER -> <<Head(str)>>) \o EscapedText(Tail(str))

\* C31 as stated: quoteName leaves a name without a space, a tab or a
\* double quote as it is, and wraps every other name, escaped, in double
\* quotes.
C31_QuotedIffSpaceTabOrQuote ==
    result.fn = "quoteName" =>
        IF \E i \in 1..Len(job.name) : job.name[i] \in {" ", "\t", "\""}
        THEN result.out = <<"\"">> \o EscapedText(job.name) \o <<"\"">>
        ELSE result.out = job.name

\* C31: quoteName leaves a name without a space, a tab, a line feed, a
\* carriage return or a double quote as it is; every other name comes out
\* as a double quote, the name with every backslash doubled and every double
\* quote prefixed by a backslash, and a closing double quote.
C31_QuotedIffWhitespaceOrQuote ==
    result.fn = "quoteName" =>
        IF \E i \in 1..Len(job.name) : job.name[i] \in {" ", "\t", "\n", "\r", "\""}
        THEN result.out = <<"\"">> \o EscapedText(job.name) \o <<"\"">>
        ELSE result.out = job.name

\* A backslash and a double quote have been wrapped and escaped.
C31_Witness ==
    /\ result.fn = "quoteName"
    /\ job.name = <<"\\", "\"">>
    /\ result.out = <<"\"", "\\", "\\", "\\", "\"", "\"">>

\* C32: for a name of backslashes, double quotes and whitespace only,
\* unquoting what quoteName returned gives the name back.
C32_QuoteThenUnquoteIsIdentity ==
    result.fn = "quoteName"
        /\ (\A i \in 1..Len(job.name) : job.name[i] \in {"\\", "\"", " ", "\t", "\n"}) =>
            Unquote(result.out) = job.name

\* C33: SetVariable sends the one command SET VAR <quoted ups> <quoted var>
\* "<v>", v being the value escaped and always in quotes; it returns true
\* exactly when the first line of the answer is OK, and an ERR answer gives
\* an error and false.
C33_SetVariableCommandAndResult ==
    result.fn = "SetVariable" =>
        /\ result.queries =
               << <<"S", "E", "T", " ", "V", "A", "R", " ", "a", " ">>
                  \o (IF job.name = <<"b">> THEN <<"b">> ELSE <<"\"", "b", " ", "c", "\"">>)
                  \o <<" ", "\"">> \o EscapedText(job.value) \o <<"\"">> >>
        /\ result.ok <=> job.reply = <<LineOK>>
        /\ job.reply = <<LineErrDenied>> => result.err # "nil" /\ ~result.ok

\* A value with a backslash and a double quote has been set and acknowledged.
C33_Witness ==
    /\ result.fn = "SetVariable"
    /\ job.value = <<"a", "\\", "\"">> /\ job.name = <<"b", " ", "c">>
    /\ job.reply = <<LineOK>> /\ result.ok

\* C34: UPS.SendCommand and CheckIfMaster succeed exactly when the first
\* line of the answer is OK, ForceShutdown exactly when it is OK FSD-SET;
\* the Master flag is set by a successful CheckIfMaster only.
C34_SuccessIsTheExactLine ==
    /\ result.fn \in {"SendCommand", "CheckIfMaster"} =>
           (result.ok <=> job.reply = <<LineOK>>)
    /\ result.fn = "ForceShutdown" =>
           (result.ok <=> job.reply = << <<"O", "K", " ", "F", "S", "D", "-", "S", "E", "T">> >>)
    /\ result.fn \in {"SendCommand", "CheckIfMaster", "ForceShutdown"} =>
           (result.Master <=> result.fn = "CheckIfMaster" /\ result.ok)

\* ForceShutdown has been answered a plain OK and reported false.
C34_Witness ==
    /\ result.fn = "ForceShutdown"
    /\ job.reply = <<LineOK>> /\ ~result.ok

\* C38: a command of the device layer holds no line feed and no carriage
\* return, whatever the names and the value: with the newline the Client
\* appends it is one protocol line.
C38_OneLinePerCommand ==
    result.fn \in {"SetVariable", "SendCommand", "CheckIfMaster", "ForceShutdown"} =>
        \A k \in 1..Len(result.queries) :
            \A i \in 1..Len(result.queries[k]) : result.queries[k][i] \notin {"\n", "\r"}
\* ====================================== the Client's life: further claims
\* C35: while a StartTLS call is between the server's OK STARTTLS and the
\* end of its swap of connection, reader and flag, no command is written to
\* the Client's stream, and no two StartTLS calls are in that stretch
\* together.
C35_StartTLSHoldsTheSession ==
    [][LET Upgrading(pcs, g) ==
               pcs[g] \in {"StartTLSHandshake", "StartTLSSetConn", "StartTLSSetReader",
                           "StartTLSSetFlag"}
       IN  /\ (\E g \in Users : Upgrading(upc, g)) => written' = written
           /\ \A g, h \in Users :
                  Upgrading(upc', g) /\ Upgrading(upc', h) => g = h]_vars

\* C39: between the USERNAME and the PASSWORD command of an Authenticate
\* call no other caller writes a command: while a call has sent USERNAME and
\* not yet PASSWORD, the next command written is its own PASSWORD.
C39_AuthenticateIsAtomic ==
    [][\A g \in Users :
          upc[g] = "AuthPassword" /\ written' # written => upc'[g] = "idle"]_vars

\* ============================================== the Pool: further claims
\* C36: every Client that Get returns has an open stream when it is
\* returned, on the immediate path and on the path that waits at capacity.
C36_GetReturnsOpenClient ==
    (ret.op = "Get" /\ ret.client # NoClient) => conn[ret.client] = "open"

\* The open Sessions the Pool created, idle or checked out.
OpenPoolSessions == {s \in Sessions : conn[s] = "open" /\ origin[s] = "pool"}

\* The step in which the connection attempt of p's Get fails.
ConnectFails(p) == pc[p] = "GetConnect" /\ pc'[p] = "idle" /\ ret'.via = "connect"

\* C37, as stated: at most maxSize open Sessions of the Pool, activeClients
\* within 0..maxSize, and a Get whose connection attempt fails has added
\* nothing to activeClients when it returns.
C37_FailedGetAddsNothing ==
    /\ [](Cardinality(OpenPoolSessions) <= maxSize /\ activeClients \in 0..maxSize)
    /\ [][\A p \in Callers :
             ConnectFails(p) => getNet[p] + activeClients' - activeClients = 0]_vars

\* C37, amended: at most maxSize open Sessions of the Pool, activeClients
\* within 0..maxSize, and a Get whose connection attempt fails gives back
\* the one slot it reserved: over the whole call it has added nothing, or
\* taken one away when it first discarded a dead idle Client.
C37_FailedGetReleasesItsSlot ==
    /\ [](Cardinality(OpenPoolSessions) <= maxSize /\ activeClients \in 0..maxSize)
    /\ [][\A p \in Callers :
             ConnectFails(p) =>
                 /\ activeClients' = activeClients - 1
                 /\ getNet[p] + activeClients' - activeClients \in {0, -1}]_vars

\* A Get's connection attempt has just failed while another caller holds a
\* Client of the Pool.
C37_Witness ==
    /\ ret.op = "Get" /\ ret.via = "connect" /\ ret.err = "connect failed"
    /\ \E q \in Callers : held[q] # NoClient /\ conn[held[q]] = "open"
    /\ activeClients = 1

\* ====================================== the device layer: further claims
\* C40: when the query about one entry fails during GetVariables
\* (description or type) or GetCommands (description), the call returns an
\* error and the Device's cached list is left as it was; the cache is
\* replaced only by a listing walked to its end without error, and then by
\* the very list the call returns.
C40_FailedEntryQueryKeepsTheCache ==
    /\ result.fn = "GetVariables" =>
           /\ (\E i \in 1..Len(job.entries) :
                  /\ \E k \in 1..Len(job.entries[i].line) : job.entries[i].line[k] = "\""
                  /\ job.entries[i].desc = <<>>)
                  => (result.out.err # "nil" /\ result.out.Variables = "unchanged")
           /\ result.out.err # "nil" => result.out.Variables = "unchanged"
           /\ result.out.err = "nil" => result.out.Variables = result.out.vars
    /\ result.fn = "GetCommands" =>
           /\ (\E i \in 1..Len(job.entries) : job.entries[i].answers[1] = <<>>)
                  => (result.out.err = "send command failed"
                      /\ result.out.Commands = "unchanged")
           /\ result.out.err # "nil" => result.out.Commands = "unchanged"
           /\ result.out.err = "nil" => result.out.Commands = result.out.commandsList

\* GetVariables has collected one variable when the type query about the
\* second fails.
C40_Witness ==
    /\ result.fn = "GetVariables"
    /\ Len(job.entries) = 2 /\ job.entries[2].desc # <<>>
    /\ result.out.err \notin {"nil", "send command failed"}
    /\ Len(result.out.vars) = 1
    /\ result.out.Variables = "unchanged"
====
